---- MODULE Spec2Model ----
(***************************************************************************)
(* PhishGuard AI: the extension's navigation guard (navigation_guard.js),  *)
(* its API client and Decision Cache (api_client.js), the service worker   *)
(* message handlers (service_worker.js), the warning page                  *)
(* (blocked_page.js) and the dashboard's ML-only classification            *)
(* (frontend/script.js).                                                   *)
(*                                                                         *)
(* Strings are sequences of one-character strings, so that the string      *)
(* operations of the code (endsWith, includes, startsWith, toLowerCase,    *)
(* URL parsing) are computed, not assumed.  Time is in milliseconds and is  *)
(* kept relative: a cache entry carries its age (Date.now() - timestamp,   *)
(* the quantity getCached computes) and a setTimeout callback the delay    *)
(* that remains.                                                           *)
(***************************************************************************)
EXTENDS Integers, Sequences, FiniteSets, Bags, TLC

(***************************************************************************)
(* Bounds of the model.                                                    *)
(***************************************************************************)
NumTabs  == 2
MaxNav   == 2
MaxScans == 2
MaxShows == 2

(***************************************************************************)
(* JavaScript string operations on character sequences.                    *)
(***************************************************************************)
StartsWith(s, p) == Len(s) >= Len(p) /\ SubSeq(s, 1, Len(p)) = p

EndsWith(s, p) == Len(s) >= Len(p) /\ SubSeq(s, Len(s) - Len(p) + 1, Len(s)) = p

Includes(s, p) ==
  \E i \in 1..(Len(s) - Len(p) + 1) : SubSeq(s, i, i + Len(p) - 1) = p

LowerChar(c) ==
  CASE c = "S" -> "s" [] c = "G" -> "g" [] c = "B" -> "b" [] c = "Y" -> "y"
    [] OTHER -> c

ToLowerCase(s) == [i \in 1..Len(s) |-> LowerChar(s[i])]

\* First index >= from at which one of the characters of cs occurs in s,
\* Len(s) + 1 when there is none.
RECURSIVE IndexOfAny(_, _, _)
IndexOfAny(s, cs, from) ==
  IF from > Len(s) THEN Len(s) + 1
  ELSE IF s[from] \in cs THEN from
  ELSE IndexOfAny(s, cs, from + 1)

(***************************************************************************)
(* The URLs of the model.  A URL is named by an identifier; Href gives     *)
(* its text.                                                               *)
(***************************************************************************)
Href(u) ==
  CASE u = "newtab" -> <<"c","h","r","o","m","e",":","/","/","n","e","w","t","a","b","/">>
    [] u = "evil" -> <<"h","t","t","p",":","/","/","e","v","i","l",".","t","e","s","t","/","l","o","g","i","n">>
    [] u = "github" -> <<"h","t","t","p","s",":","/","/","g","i","t","h","u","b",".","c","o","m","/","x">>
    [] u = "docs" -> <<"h","t","t","p","s",":","/","/","d","o","c","s",".","g","i","t","h","u","b",".","c","o","m","/">>
    [] u = "notgithub" -> <<"h","t","t","p","s",":","/","/","n","o","t","g","i","t","h","u","b",".","c","o","m","/">>
    [] u = "bing" -> <<"h","t","t","p","s",":","/","/","w","w","w",".","b","i","n","g",".","c","o","m","/","S","e","a","r","c","h","?","q","=","a">>
    [] u = "blocked" -> <<"c","h","r","o","m","e","-","e","x","t","e","n","s","i","o","n",":","/","/","a","b","c","/","b","l","o","c","k","e","d",".","h","t","m","l">>

BlockedPage == "blocked"
WebUrls     == {"evil", "github", "docs", "notgithub", "bing"}
FrameUrls   == {"evil"}

\* new URL(url): protocol, hostname and pathname of a hierarchical URL
\* without userinfo or port.
SchemeEnd(s)  == IndexOfAny(s, {":"}, 1)
Scheme(s)     == SubSeq(s, 1, SchemeEnd(s) - 1)
HostStart(s)  == SchemeEnd(s) + 3
HostEnd(s)    == IndexOfAny(s, {"/", "?", "#"}, HostStart(s))
Hostname(s)   == ToLowerCase(SubSeq(s, HostStart(s), HostEnd(s) - 1))
PathEnd(s)    == IndexOfAny(s, {"?", "#"}, HostEnd(s))
Pathname(s)   ==
  IF PathEnd(s) = HostEnd(s) THEN <<"/">> ELSE SubSeq(s, HostEnd(s), PathEnd(s) - 1)

(***************************************************************************)
(* config.js                                                               *)
(***************************************************************************)
CACHE_TTL_MS == 900000

WHITELIST ==
  << <<"l","o","c","a","l","h","o","s","t">>,
     <<"1","2","7",".","0",".","0",".","1">>,
     <<"0",".","0",".","0",".","0">>,
     <<"c","h","a","r","u","s","a","t",".","e","d","u",".","i","n">>,
     <<"c","h","a","r","u","s","a","t",".","a","c",".","i","n">>,
     <<"i","i","t","b",".","a","c",".","i","n">>,
     <<"i","i","t","d",".","a","c",".","i","n">>,
     <<"i","i","t","m",".","a","c",".","i","n">>,
     <<"i","i","t","k",".","a","c",".","i","n">>,
     <<"i","i","s","c",".","a","c",".","i","n">>,
     <<"b","i","t","s","-","p","i","l","a","n","i",".","a","c",".","i","n">>,
     <<"d","t","u",".","a","c",".","i","n">>,
     <<"v","i","t",".","a","c",".","i","n">>,
     <<"i","n","d","i","a",".","g","o","v",".","i","n">>,
     <<"m","y","g","o","v",".","i","n">>,
     <<"u","i","d","a","i",".","g","o","v",".","i","n">>,
     <<"i","n","c","o","m","e","t","a","x",".","g","o","v",".","i","n">>,
     <<"r","b","i",".","o","r","g",".","i","n">>,
     <<"i","r","c","t","c",".","c","o",".","i","n">>,
     <<"s","b","i",".","c","o",".","i","n">>,
     <<"h","d","f","c","b","a","n","k",".","c","o","m">>,
     <<"i","c","i","c","i","b","a","n","k",".","c","o","m">>,
     <<"a","x","i","s","b","a","n","k",".","c","o","m">>,
     <<"g","o","o","g","l","e",".","c","o","m">>,
     <<"y","o","u","t","u","b","e",".","c","o","m">>,
     <<"g","i","t","h","u","b",".","c","o","m">>,
     <<"m","i","c","r","o","s","o","f","t",".","c","o","m">>,
     <<"a","p","p","l","e",".","c","o","m">>,
     <<"a","m","a","z","o","n",".","c","o","m">>,
     <<"f","a","c","e","b","o","o","k",".","c","o","m">>,
     <<"t","w","i","t","t","e","r",".","c","o","m">>,
     <<"l","i","n","k","e","d","i","n",".","c","o","m">>,
     <<"i","n","s","t","a","g","r","a","m",".","c","o","m">>,
     <<"w","i","k","i","p","e","d","i","a",".","o","r","g">>,
     <<"c","l","o","u","d","f","l","a","r","e",".","c","o","m">>,
     <<"m","o","z","i","l","l","a",".","o","r","g">> >>

CACHE_LIMIT == 100

\* frontend/script.js
MAX_HISTORY             == 10
ML_PHISHING_THRESHOLD   == 75
ML_SUSPICIOUS_THRESHOLD == 40

PENDING_RELEASE_MS == 2000
REDIRECT_LOCK_MS   == 3000

(***************************************************************************)
(* JavaScript values.  A scan result is a record; tag tells where it came  *)
(* from ("null" is the JavaScript value null).  An absent number is        *)
(* NoNumber.                                                               *)
(***************************************************************************)
Null     == "null"
NoNumber == -1

\* x ?? d for a number
Coalesce(x, d) == IF x = NoNumber THEN d ELSE x

Result(classification, confidence, tag) ==
  [classification |-> classification, confidence |-> confidence, tag |-> tag]

NullResult == Result("undefined", NoNumber, "null")

(***************************************************************************)
(* The Scoring Service (external): what one POST /api/scan can produce.    *)
(***************************************************************************)
BackendBodies ==
  { Result("Phishing", NoNumber, "backend"),
    Result("Suspicious", 60, "backend"),
    Result("Legitimate", 5, "backend"),
    NullResult }

FetchFailures == {"NetworkError", "HttpError", "ParseError"}

FetchOutcomes ==
  [status : FetchFailures, body : {NullResult}] \cup [status : {"ok"}, body : BackendBodies]

(***************************************************************************)
(* State.                                                                  *)
(***************************************************************************)
VARIABLES
  cache,               \* APIClient.cache: Map in insertion order, with ages
  pendingNavigations,  \* NavigationGuard.pendingNavigations
  blockedTabs,         \* NavigationGuard.blockedTabs
  timers,              \* setTimeout callbacks not yet run
  checks,              \* handleNavigation calls suspended at an await
  lastDetection,       \* chrome.storage.local 'lastDetection'
  tabUrl,              \* target of each tab's latest main-frame navigation
  navEvents,           \* onBeforeNavigate events not yet delivered
  page,                \* warning page of each tab
  nextNav,             \* number of navigations begun so far, plus one
  last,                \* history: what the last step did
  lookup,              \* history: the last call of setCached or getCached
  state,               \* dashboard: state.currentScan, .history, .stats
  elements,            \* dashboard: what the page displays
  scansPending,        \* dashboard: handleScan calls suspended at their await
  scanCount,           \* dashboard: number of scans begun so far
  scanned,             \* history: the response the last step displayed
  charts,              \* dashboard: state.charts, the data of the two charts
  popup,               \* popup: what it displays, and its stored stats
  messages,            \* runtime messages sent and not yet answered to the sender
  badge,               \* the action badge text of each tab
  auth,                \* dashboard: the login modal and its pending callback
  link,                \* content script: its lock and the link click of each tab
  storedStats,         \* chrome.storage.local 'stats'
  increments           \* popup: increment calls suspended at an await

extensionVars == << cache, pendingNavigations, blockedTabs, timers, checks,
                    lastDetection, tabUrl, navEvents, page, nextNav >>

dashboardVars == << state, elements, scansPending, scanCount, scanned, charts >>

popupVars == << popup, messages, badge >>

pageVars == << auth, link, storedStats, increments >>

vars == << extensionVars, last, lookup, dashboardVars, popupVars, pageVars >>

Tabs == 1..NumTabs

\* byTab is history: the tab whose block wrote the record (the code stores
\* no tab identifier).
NoRecord ==
  [present |-> FALSE, url |-> Null, originalUrl |-> Null,
   classification |-> "undefined", confidence |-> NoNumber, byTab |-> 0]

\* The warning page of a tab: what blocked_page.js has read and displays.
\* forUrl (the URL whose block redirected the tab here) and fromTab (the tab
\* whose block wrote the record it read) are history.
PageOf(forUrl) ==
  [loaded |-> FALSE, originalUrl |-> Null, shownUrl |-> Null,
   shownClassification |-> Null, forUrl |-> forUrl, fromTab |-> 0]

NoPage == PageOf(Null)

Timer(kind, tabId, url, delay) ==
  [kind |-> kind, tabId |-> tabId, url |-> url, remaining |-> delay]

NavEvent(origin, tabId, url, frameId) ==
  [origin |-> origin, tabId |-> tabId, url |-> url, frameId |-> frameId]

\* A suspended handleNavigation call.  pc is the await it is suspended at.
\* The other fields are history: the outcome of its Scoring Service call, the
\* storage writes and redirects it has issued, whether its tab has begun a
\* navigation to another URL since the call started, and the tab's
\* navigation target when it last issued a write or a redirect.
Check(e, pc, result, response) ==
  [origin |-> e.origin, tabId |-> e.tabId, url |-> e.url, pc |-> pc,
   result |-> result, response |-> response, writes |-> 0, redirects |-> 0,
   superseded |-> FALSE, active |-> Null]

\* History: tab t begins a main-frame navigation to u while cs are in flight.
Superseded(cs, t, u) ==
  {[c EXCEPT !.superseded = @ \/ (c.tabId = t /\ c.url # u)] : c \in cs}

\* History of the last step: the operation, the navigation it worked on, the
\* classification it obtained, its decision, whether it called the Scoring
\* Service, and, when it finished a check, what that check had issued.
Last(op, origin, tabId, url, verdict, decision, fetched, response, writes, redirects) ==
  [op |-> op, origin |-> origin, tabId |-> tabId, url |-> url, verdict |-> verdict,
   decision |-> decision, fetched |-> fetched, response |-> response,
   writes |-> writes, redirects |-> redirects]

NoLast == Last("none", "-", 0, Null, "-", "-", FALSE, "-", 0, 0)

(***************************************************************************)
(* api_client.js                                                           *)
(***************************************************************************)
\* Variant: exact match only, the subdomain test is lost.
isWhitelisted_ExactOnly(url) ==
  LET hostname == ToLowerCase(Hostname(Href(url)))
  IN  \E i \in 1..Len(WHITELIST) : hostname = WHITELIST[i]

isWhitelisted(url) ==
  LET hostname == ToLowerCase(Hostname(Href(url)))
  IN  \E i \in 1..Len(WHITELIST) :
        \/ hostname = WHITELIST[i]
        \/ EndsWith(hostname, <<".">> \o WHITELIST[i])

isSearchPage(url) ==
  LET hostname == Hostname(Href(url))
      pathname == ToLowerCase(Pathname(Href(url)))
  IN  \/ Includes(hostname, <<"g","o","o","g","l","e",".">>)
           /\ StartsWith(pathname, <<"/","s","e","a","r","c","h">>)
      \/ Includes(hostname, <<"b","i","n","g",".","c","o","m">>)
           /\ StartsWith(pathname, <<"/","s","e","a","r","c","h">>)
      \/ Includes(hostname, <<"y","a","h","o","o",".","c","o","m">>)
           /\ Includes(pathname, <<"/","s","e","a","r","c","h">>)

SkippedResult     == Result("Legitimate", 100, "skipped")
WhitelistedResult == Result("Legitimate", 100, "whitelisted")
ErrorResult       == Result("Error", 0, "error")
MustFetch         == Result("undefined", NoNumber, "fetch")

\* Map operations on the insertion-ordered cache.
MapIndex(c, url) ==
  IF \E i \in 1..Len(c) : c[i].url = url
  THEN CHOOSE i \in 1..Len(c) : c[i].url = url
  ELSE 0

MapDelete(c, url) ==
  LET i == MapIndex(c, url)
  IN  IF i = 0 THEN c ELSE SubSeq(c, 1, i - 1) \o SubSeq(c, i + 1, Len(c))

\* Variant: set never replaces, every call adds an entry.
MapSet_AlwaysAppend(c, url, result) ==
  Append(c, [url |-> url, result |-> result, age |-> 0])

\* set(url, {result, timestamp: Date.now()}): the new entry has age 0
MapSet(c, url, result) ==
  LET i == MapIndex(c, url)
      e == [url |-> url, result |-> result, age |-> 0]
  IN  IF i = 0 THEN Append(c, e) ELSE [c EXCEPT ![i] = e]

\* Variant: entries never expire.
getCached_NeverExpires(c, url) ==
  LET i == MapIndex(c, url)
  IN  IF i = 0 THEN NullResult ELSE c[i].result

\* getCached(url): the value returned ...
getCached(c, url) ==
  LET i == MapIndex(c, url)
  IN  IF i = 0 THEN NullResult
      ELSE IF c[i].age > CACHE_TTL_MS THEN NullResult
      ELSE c[i].result

\* ... and the cache it leaves.
getCachedCache(c, url) ==
  LET i == MapIndex(c, url)
  IN  IF i # 0 /\ c[i].age > CACHE_TTL_MS THEN MapDelete(c, url) ELSE c

\* Variant: the entry evicted is the newest one.
setCached_EvictNewest(c, url, result) ==
  LET c1 == MapSet(c, url, result)
  IN  IF Len(c1) > CACHE_LIMIT THEN MapDelete(c1, c1[Len(c1)].url) ELSE c1

setCached(c, url, result) ==
  LET c1 == MapSet(c, url, result)
  IN  IF Len(c1) > CACHE_LIMIT THEN MapDelete(c1, c1[1].url) ELSE c1

\* The URLs of the model, and the two tests of scanURL tabulated over them.
Urls == WebUrls \cup {BlockedPage, "newtab"}

SearchPageUrls == {u \in Urls : isSearchPage(u)}

WhitelistedUrls == {u \in Urls : isWhitelisted(u)}

\* scanURL up to its first await: the result it returns without calling the
\* Scoring Service, or MustFetch when it calls it.
scanURLLocal(c, url) ==
  IF url \in SearchPageUrls THEN SkippedResult
  ELSE IF url \in WhitelistedUrls THEN WhitelistedResult
  ELSE IF getCached(c, url) # NullResult THEN getCached(c, url)
  ELSE MustFetch

scanURLLocalCache(c, url) ==
  IF url \in SearchPageUrls \/ url \in WhitelistedUrls THEN c ELSE getCachedCache(c, url)

\* Variant: the error result of a failed call is stored like a response.
scanURLResultCache_CachesErrors(c, url, outcome) ==
  IF outcome.status \in FetchFailures THEN MapSet(c, url, ErrorResult)
  ELSE MapSet(c, url, outcome.body)

\* scanURL after the fetch: the result returned for an outcome of the call.
scanURLResult(outcome) ==
  IF outcome.status \in FetchFailures THEN ErrorResult ELSE outcome.body

scanURLResultCache(c, url, outcome) ==
  IF outcome.status \in FetchFailures THEN c ELSE setCached(c, url, outcome.body)

(***************************************************************************)
(* navigation_guard.js                                                     *)
(***************************************************************************)
\* Variant: the listener is registered without a URL filter.
ListenerFilter_NoFilter(url) == TRUE

\* init(): the event filter { url: [{ schemes: ['http', 'https'] }] }
ListenerFilter(url) ==
  Scheme(Href(url)) \in { <<"h","t","t","p">>, <<"h","t","t","p","s">> }

\* The URLs whose navigation events the filter lets through.
DeliveredUrls == {u \in Urls : ListenerFilter(u)}

\* Variant: no test of the frame.
Skipped_AllFrames(e) ==
  \/ e.tabId \in blockedTabs
  \/ <<e.tabId, e.url>> \in pendingNavigations

\* Variant: no test of pendingNavigations.
Skipped_NoDedupe(e) ==
  \/ e.frameId # 0
  \/ e.tabId \in blockedTabs

\* handleNavigation's early returns
Skipped(e) ==
  \/ e.frameId # 0
  \/ e.tabId \in blockedTabs
  \/ <<e.tabId, e.url>> \in pendingNavigations

\* Variant: Suspicious is blocked too.
Decide_BlockSuspicious(result) ==
  IF result.tag # "null" /\ result.classification \in {"Phishing", "Suspicious"}
  THEN "Block" ELSE "Allow"

\* Variant: everything that is not Legitimate or Suspicious is blocked.
Decide_FailClosed(result) ==
  IF result.tag # "null" /\ result.classification \notin {"Legitimate", "Suspicious"}
  THEN "Block" ELSE "Allow"

\* The decision taken on a scan result.  Reading .classification of null
\* throws, which the catch turns into "allow".
Decide(result) ==
  IF result.tag # "null" /\ result.classification = "Phishing" THEN "Block" ELSE "Allow"

\* handleNavigation from the return of scanURL to its next await: either it
\* enters blockNavigation (marks the tab, issues storage.local.set) or it
\* finishes and schedules the release of the pending key.
AfterScan(op, c, rest, fetched) ==
  IF Decide(c.result) = "Block"
  THEN /\ blockedTabs' = blockedTabs \cup {c.tabId}
       /\ checks' = rest \cup
            {[c EXCEPT !.pc = "set", !.writes = @ + 1, !.active = tabUrl[c.tabId]]}
       /\ timers' = timers
       /\ last' = Last(op, c.origin, c.tabId, c.url, c.result.classification,
                       "Block", fetched, c.response, c.writes + 1, c.redirects)
  ELSE /\ blockedTabs' = blockedTabs
       /\ checks' = rest
       /\ timers' = timers \cup {Timer("pending", c.tabId, c.url, PENDING_RELEASE_MS)}
       /\ last' = Last(op, c.origin, c.tabId, c.url, c.result.classification,
                       "Allow", fetched, c.response, c.writes, c.redirects)

\* A navigation begins in a tab (typed URL, link, bookmark) or in one of its
\* sub-frames; the browser queues the onBeforeNavigate event.
UserNavigate(t, u, f) ==
  /\ nextNav <= MaxNav
  /\ nextNav' = nextNav + 1
  /\ navEvents' = navEvents \cup {NavEvent("user", t, u, f)}
  /\ IF f = 0
     THEN /\ tabUrl' = [tabUrl EXCEPT ![t] = u]
          /\ page' = [page EXCEPT ![t] = NoPage]
          /\ checks' = Superseded(checks, t, u)
     ELSE UNCHANGED <<tabUrl, page, checks>>
  /\ last' = Last("UserNavigate", "user", t, u, "-", "-", FALSE, "-", 0, 0)
  /\ UNCHANGED <<lookup, dashboardVars, popupVars, pageVars>>
  /\ UNCHANGED <<cache, pendingNavigations, blockedTabs, timers, lastDetection>>

\* Delivery of an onBeforeNavigate event: the filter of init(), then
\* handleNavigation up to the first await that really suspends.
OnBeforeNavigate(e) ==
  /\ e \in navEvents
  /\ navEvents' = navEvents \ {e}
  /\ UNCHANGED <<lookup, dashboardVars, popupVars, pageVars>>
  /\ UNCHANGED <<lastDetection, tabUrl, page, nextNav>>
  /\ IF e.url \notin DeliveredUrls \/ Skipped(e)
     THEN /\ last' = Last("OnBeforeNavigate", e.origin, e.tabId, e.url, "-", "Ignored",
                          FALSE, "-", 0, 0)
          /\ UNCHANGED <<cache, pendingNavigations, blockedTabs, timers, checks>>
     ELSE /\ pendingNavigations' = pendingNavigations \cup {<<e.tabId, e.url>>}
          /\ cache' = scanURLLocalCache(cache, e.url)
          /\ LET r == scanURLLocal(cache, e.url)
             IN  IF r = MustFetch
                 THEN /\ checks' = checks \cup {Check(e, "fetch", MustFetch, "-")}
                      /\ last' = Last("OnBeforeNavigate", e.origin, e.tabId, e.url, "-",
                                      "-", TRUE, "-", 0, 0)
                      /\ UNCHANGED <<blockedTabs, timers>>
                 ELSE AfterScan("OnBeforeNavigate", Check(e, "scan", r, "-"), checks, FALSE)

\* The Scoring Service call of a check finishes with outcome o.
FetchComplete(c, o) ==
  /\ c \in checks /\ c.pc = "fetch"
  /\ cache' = scanURLResultCache(cache, c.url, o)
  /\ AfterScan("FetchComplete",
               [c EXCEPT !.result = scanURLResult(o), !.response = o.status],
               checks \ {c}, FALSE)
  /\ UNCHANGED <<lookup, dashboardVars, popupVars, pageVars>>
  /\ UNCHANGED <<pendingNavigations, lastDetection, tabUrl, navEvents, page, nextNav>>

\* Variant: the redirect lock is released by the catch only.
BlockRelease_CatchOnly(op, c, failed) ==
  /\ blockedTabs' = IF failed THEN blockedTabs \ {c.tabId} ELSE blockedTabs
  /\ timers' = timers \cup { Timer("pending", c.tabId, c.url, PENDING_RELEASE_MS) }
  /\ checks' = checks \ {c}
  /\ last' = Last(op, c.origin, c.tabId, c.url, c.result.classification,
                  IF failed THEN "Failed" ELSE "Done", FALSE, c.response,
                  c.writes, c.redirects)

\* blockNavigation's catch and finally, and handleNavigation's finally.
BlockRelease(op, c, failed) ==
  /\ blockedTabs' = IF failed THEN blockedTabs \ {c.tabId} ELSE blockedTabs
  /\ timers' = timers \cup { Timer("blocked", c.tabId, Null, REDIRECT_LOCK_MS),
                             Timer("pending", c.tabId, c.url, PENDING_RELEASE_MS) }
  /\ checks' = checks \ {c}
  /\ last' = Last(op, c.origin, c.tabId, c.url, c.result.classification,
                  IF failed THEN "Failed" ELSE "Done", FALSE, c.response,
                  c.writes, c.redirects)

\* chrome.storage.local.set settles; on success blockNavigation issues
\* chrome.tabs.update.
StorageSetComplete(c, ok) ==
  /\ c \in checks /\ c.pc = "set"
  /\ IF ok
     THEN /\ lastDetection' =
               [present |-> TRUE, url |-> c.url, originalUrl |-> c.url,
                classification |-> c.result.classification,
                confidence |-> Coalesce(c.result.confidence, 95),
                byTab |-> c.tabId]
          /\ checks' = (checks \ {c}) \cup
               {[c EXCEPT !.pc = "update", !.redirects = @ + 1, !.active = tabUrl[c.tabId]]}
          /\ last' = Last("StorageSetComplete", c.origin, c.tabId, c.url,
                          c.result.classification, "Redirect", FALSE, c.response,
                          c.writes, c.redirects + 1)
          /\ UNCHANGED <<blockedTabs, timers>>
     ELSE /\ BlockRelease("StorageSetComplete", c, TRUE)
          /\ UNCHANGED lastDetection
  /\ UNCHANGED <<lookup, dashboardVars, popupVars, pageVars>>
  /\ UNCHANGED <<cache, pendingNavigations, tabUrl, navEvents, page, nextNav>>

\* chrome.tabs.update settles; on success the tab navigates to blocked.html,
\* which fires a navigation event of its own.
TabsUpdateComplete(c, ok) ==
  /\ c \in checks /\ c.pc = "update"
  /\ BlockRelease("TabsUpdateComplete", c, ~ok)
  /\ IF ok
     THEN /\ tabUrl' = [tabUrl EXCEPT ![c.tabId] = BlockedPage]
          /\ page' = [page EXCEPT ![c.tabId] = PageOf(c.url)]
          /\ navEvents' = navEvents \cup {NavEvent("redirect", c.tabId, BlockedPage, 0)}
     ELSE UNCHANGED <<tabUrl, page, navEvents>>
  /\ UNCHANGED <<lookup, dashboardVars, popupVars, pageVars>>
  /\ UNCHANGED <<cache, pendingNavigations, lastDetection, nextNav>>

\* The setTimeout callbacks of handleNavigation and blockNavigation.
RunTimer(tm, st) ==
  IF tm.kind = "pending"
  THEN [st EXCEPT !.pending = @ \ {<<tm.tabId, tm.url>>}]
  ELSE [st EXCEPT !.blocked = @ \ {tm.tabId}]

RECURSIVE RunTimers(_, _)
RunTimers(tms, st) ==
  IF tms = {} THEN st
  ELSE LET tm == CHOOSE x \in tms : TRUE
       IN  RunTimers(tms \ {tm}, RunTimer(tm, st))

TickSteps == {PENDING_RELEASE_MS, CACHE_TTL_MS}

Min(a, b) == IF a < b THEN a ELSE b

\* Ages beyond the TTL are not told apart by getCached.
Aged(c, d) == [i \in 1..Len(c) |-> [c[i] EXCEPT !.age = Min(@ + d, CACHE_TTL_MS + 1)]]

\* d milliseconds pass: the cache entries age and the callbacks whose delay
\* has elapsed run.  Time is observed while a callback waits or the cache
\* holds an entry.
Tick(d) ==
  /\ d < CACHE_TTL_MS => timers # {}
  /\ d >= CACHE_TTL_MS => timers # {} \/ cache # <<>>
  /\ cache' = Aged(cache, d)
  /\ LET due  == {tm \in timers : tm.remaining <= d}
         rest == {[tm EXCEPT !.remaining = @ - d] : tm \in timers \ due}
         st   == RunTimers(due, [pending |-> pendingNavigations, blocked |-> blockedTabs])
     IN  /\ timers' = rest
         /\ pendingNavigations' = st.pending
         /\ blockedTabs' = st.blocked
  /\ last' = Last("Tick", "-", 0, Null, "-", "-", FALSE, "-", 0, 0)
  /\ UNCHANGED <<lookup, dashboardVars, popupVars, pageVars>>
  /\ UNCHANGED <<checks, lastDetection, tabUrl, navEvents, page, nextNav>>

(***************************************************************************)
(* service_worker.js                                                       *)
(***************************************************************************)
\* message CLEAR_CACHE
handleClearCache ==
  /\ cache' = <<>>
  /\ last' = Last("handleClearCache", "-", 0, Null, "-", "-", FALSE, "-", 0, 0)
  /\ UNCHANGED <<lookup, dashboardVars, popupVars, pageVars>>
  /\ UNCHANGED <<pendingNavigations, blockedTabs, timers, checks,
                 lastDetection, tabUrl, navEvents, page, nextNav>>

(***************************************************************************)
(* blocked_page.js                                                         *)
(***************************************************************************)
\* d.originalUrl || d.url || null
OriginalUrlOf(d) ==
  IF d.originalUrl # Null THEN d.originalUrl ELSE d.url

\* DOMContentLoaded: read 'lastDetection' (ok: the read succeeded) and
\* populate the page.
BlockedPageLoaded(t, ok) ==
  /\ tabUrl[t] = BlockedPage
  /\ ~page[t].loaded
  /\ page' = [page EXCEPT ![t] =
       IF ok /\ lastDetection.present
       THEN [@ EXCEPT !.loaded = TRUE,
                      !.originalUrl = OriginalUrlOf(lastDetection),
                      !.shownUrl = OriginalUrlOf(lastDetection),
                      !.shownClassification = lastDetection.classification,
                      !.fromTab = lastDetection.byTab]
       ELSE [@ EXCEPT !.loaded = TRUE]]
  /\ last' = Last("BlockedPageLoaded", "-", t, page[t].forUrl, "-", "-", FALSE, "-", 0, 0)
  /\ UNCHANGED <<lookup, dashboardVars, popupVars, pageVars>>
  /\ UNCHANGED <<cache, pendingNavigations, blockedTabs, timers, checks,
                 lastDetection, tabUrl, navEvents, nextNav>>

\* Click on "proceed anyway", answered by the user in the confirm dialog;
\* removed tells whether chrome.storage.local.remove succeeded.
ProceedClick(t, confirmed, removed) ==
  /\ tabUrl[t] = BlockedPage
  /\ page[t].loaded
  /\ nextNav <= MaxNav
  /\ IF page[t].originalUrl # Null /\ confirmed
     THEN /\ nextNav' = nextNav + 1
          /\ lastDetection' = IF removed THEN NoRecord ELSE lastDetection
          /\ tabUrl' = [tabUrl EXCEPT ![t] = page[t].originalUrl]
          /\ page' = [page EXCEPT ![t] = NoPage]
          /\ navEvents' = navEvents \cup {NavEvent("proceed", t, page[t].originalUrl, 0)}
          /\ checks' = Superseded(checks, t, page[t].originalUrl)
          /\ last' = Last("ProceedClick", "proceed", t, page[t].originalUrl, "-",
                          "Confirmed", FALSE, "-", 0, 0)
     ELSE /\ last' = Last("ProceedClick", "proceed", t, page[t].originalUrl, "-",
                          "Declined", FALSE, "-", 0, 0)
          /\ UNCHANGED <<lastDetection, tabUrl, page, navEvents, nextNav, checks>>
  /\ UNCHANGED <<lookup, dashboardVars, popupVars, pageVars>>
  /\ UNCHANGED <<cache, pendingNavigations, blockedTabs, timers>>

(***************************************************************************)
(* api_client.js: the Decision Cache called directly.                      *)
(***************************************************************************)
CacheUrls == {"evil", "notgithub"}

\* value: what the call was given (setCached) or returned (getCached);
\* stored and age: the entry getCached found; put: the value given by the
\* setCached call of the same URL that came immediately before, if any.
Lookup(op, url, value, stored, age, afterPut, put) ==
  [op |-> op, url |-> url, value |-> value, stored |-> stored, age |-> age,
   afterPut |-> afterPut, put |-> put]

NoLookup == Lookup("none", Null, NullResult, NullResult, NoNumber, FALSE, NullResult)

\* The keys of a cache.
Keys(c) == {c[i].url : i \in 1..Len(c)}

\* History: the key that a call which turned cache c into c1 removed.
Evicted(c, c1) ==
  IF Keys(c) \subseteq Keys(c1) THEN "-" ELSE CHOOSE k \in Keys(c) \ Keys(c1) : TRUE

CallSetCached(url, result) ==
  /\ cache' = setCached(cache, url, result)
  /\ lookup' = Lookup("setCached", url, result, result, 0, FALSE, NullResult)
  /\ last' = Last("setCached", "-", 0, url, result.classification, "-", FALSE,
                  Evicted(cache, cache'), 0, 0)
  /\ UNCHANGED <<pendingNavigations, blockedTabs, timers, checks, lastDetection,
                 tabUrl, navEvents, page, nextNav, dashboardVars, popupVars, pageVars>>

CallGetCached(url) ==
  /\ cache' = getCachedCache(cache, url)
  /\ LET i        == MapIndex(cache, url)
         afterPut == last.op = "setCached" /\ last.url = url
     IN  lookup' = Lookup("getCached", url, getCached(cache, url),
                          IF i = 0 THEN NullResult ELSE cache[i].result,
                          IF i = 0 THEN NoNumber ELSE cache[i].age,
                          afterPut,
                          IF afterPut THEN lookup.value ELSE NullResult)
  /\ last' = Last("getCached", "-", 0, url, getCached(cache, url).classification,
                  "-", FALSE, "-", 0, 0)
  /\ UNCHANGED <<pendingNavigations, blockedTabs, timers, checks, lastDetection,
                 tabUrl, navEvents, page, nextNav, dashboardVars, popupVars, pageVars>>

\* An entry reaches the age CACHE_TTL_MS and then exceeds it.
CacheTickSteps == {CACHE_TTL_MS, CACHE_TTL_MS + 1}

(***************************************************************************)
(* frontend/script.js: the dashboard.  Scores are in thousandths, so 0.75  *)
(* is 750 and 74.5 is 74500; percentages, once rounded, are integers.      *)
(***************************************************************************)
\* One of data.modules / data.ensemble_modules.  In data.modules the ML
\* score is the number ml and the other scores are numbers; in
\* data.ensemble_modules it is ml_model.score and the others are .score of
\* their objects.
Container(present, ml, ml_model, o) ==
  [present |-> present, ml |-> ml, ml_model |-> ml_model,
   lexical |-> o.lexical, reputation |-> o.reputation,
   behavior |-> o.behavior, nlp |-> o.nlp]

Others(lexical, reputation, behavior, nlp) ==
  [lexical |-> lexical, reputation |-> reputation, behavior |-> behavior, nlp |-> nlp]

NoContainer == Container(FALSE, NoNumber, NoNumber,
                         Others(NoNumber, NoNumber, NoNumber, NoNumber))

\* The JSON body of a scan response, as far as the dashboard reads it.
Response(modules, ensemble_modules, ml_confidence, ensemble_score, confidence, classification) ==
  [modules |-> modules, ensemble_modules |-> ensemble_modules,
   ml_confidence |-> ml_confidence, ensemble_score |-> ensemble_score,
   confidence |-> confidence, classification |-> classification]

NoResponse == Response(NoContainer, NoContainer, NoNumber, NoNumber, NoNumber, "-")

\* ML scores the backend may report: 0.39, 0.4, 0.74, 0.75, 0.92, 39.5, 74,
\* 74.5, 89.6, 100
MLValues == {390, 400, 740, 750, 920, 39500, 74000, 74500, 89600, 100000}

\* The informational module scores: all low, or one of them high.
OtherScores ==
  { Others(50, 50, 50, 50), Others(950, 50, 50, 50), Others(50, 950, 50, 50),
    Others(50, 50, 95000, 50), Others(50, 50, 50, 95000) }

Responses ==
  { Response(Container(TRUE, ml, NoNumber, o), NoContainer, NoNumber, 990, NoNumber, cl) :
      ml \in MLValues, o \in OtherScores, cl \in {"Phishing", "Legitimate"} }
  \cup
  { Response(Container(TRUE, NoNumber, NoNumber, o), NoContainer, 750, NoNumber, NoNumber,
             "Phishing") : o \in OtherScores }
  \cup
  { Response(NoContainer, Container(TRUE, NoNumber, 74000, o), NoNumber, NoNumber, NoNumber,
             "Legitimate") : o \in OtherScores }
  \cup
  { Response(NoContainer, NoContainer, NoNumber, 400, NoNumber, "Legitimate"),
    Response(NoContainer, NoContainer, NoNumber, 0, 75000, "Legitimate"),
    Response(NoContainer, NoContainer, NoNumber, NoNumber, NoNumber, "Legitimate") }

\* v <= 1 ? v * 100 : v
Percent(v) == IF v <= 1000 THEN v * 100 ELSE v

\* Math.round: halves round up
MathRound(x) == (x + 500) \div 1000

\* a || b || 0 for numbers
OrElse(a, b) ==
  IF a \notin {NoNumber, 0} THEN a ELSE IF b \notin {NoNumber, 0} THEN b ELSE 0

\* Variant: without an ML score of 60 or more, the lexical score decides.
extractMLScore_Lexical(data) ==
  LET modules == IF data.modules.present THEN data.modules
                 ELSE IF data.ensemble_modules.present THEN data.ensemble_modules
                 ELSE NoContainer
      ml      == IF modules.ml # NoNumber THEN modules.ml ELSE modules.ml_model
  IN  IF ml # NoNumber /\ Percent(ml) >= 60000 THEN MathRound(Percent(ml))
      ELSE IF modules.lexical # NoNumber THEN MathRound(Percent(modules.lexical))
      ELSE MathRound(Percent(OrElse(data.ensemble_score, data.confidence)))

extractMLScore(data) ==
  LET modules == IF data.modules.present THEN data.modules
                 ELSE IF data.ensemble_modules.present THEN data.ensemble_modules
                 ELSE NoContainer
      mlScore == IF modules.ml # NoNumber THEN Percent(modules.ml)
                 ELSE IF modules.ml_model # NoNumber THEN Percent(modules.ml_model)
                 ELSE IF data.ml_confidence # NoNumber THEN Percent(data.ml_confidence)
                 ELSE Percent(OrElse(data.ensemble_score, data.confidence))
  IN  MathRound(mlScore)

\* displayResult: the class of the status element ...
statusClass(mlConfidencePct) ==
  IF mlConfidencePct >= ML_PHISHING_THRESHOLD THEN "danger"
  ELSE IF mlConfidencePct >= ML_SUSPICIOUS_THRESHOLD THEN "warning"
  ELSE "safe"

\* Variant: the thresholds are exclusive.
statusText_Exclusive(mlConfidencePct) ==
  IF mlConfidencePct > ML_PHISHING_THRESHOLD THEN "PHISHING"
  ELSE IF mlConfidencePct > ML_SUSPICIOUS_THRESHOLD THEN "SUSPICIOUS"
  ELSE "SAFE"

\* ... and its text.
statusText(mlConfidencePct) ==
  IF mlConfidencePct >= ML_PHISHING_THRESHOLD THEN "PHISHING"
  ELSE IF mlConfidencePct >= ML_SUSPICIOUS_THRESHOLD THEN "SUSPICIOUS"
  ELSE "SAFE"

\* Variant: Critical only above 90.
calculateRiskLevel_Above90(class, confidencePct) ==
  IF class = "danger"
  THEN IF confidencePct > 90 THEN "Critical"
       ELSE IF confidencePct >= 70 THEN "High"
       ELSE "Medium"
  ELSE IF class = "warning" THEN "Medium"
  ELSE "Low"

calculateRiskLevel(class, confidencePct) ==
  IF class = "danger"
  THEN IF confidencePct >= 90 THEN "Critical"
       ELSE IF confidencePct >= 70 THEN "High"
       ELSE "Medium"
  ELSE IF class = "warning" THEN "Medium"
  ELSE "Low"

\* saveToHistory: the entry (its url, timestamp and duration are left out) ...
historyEntry(data) ==
  LET mlScore == extractMLScore(data)
  IN  [classification |-> IF mlScore >= ML_PHISHING_THRESHOLD THEN "Phishing"
                          ELSE IF mlScore >= ML_SUSPICIOUS_THRESHOLD THEN "Suspicious"
                          ELSE "Legitimate",
       confidence |-> mlScore]

\* ... and the list: unshift, then pop beyond MAX_HISTORY.
saveToHistory(history, data) ==
  LET h == <<historyEntry(data)>> \o history
  IN  IF Len(h) > MAX_HISTORY THEN SubSeq(h, 1, Len(h) - 1) ELSE h

updateStats(stats, data) ==
  [totalScans |-> stats.totalScans + 1,
   threatsBlocked |->
     IF data.classification \in {"Phishing", "PHISHING", "Suspicious", "SUSPICIOUS"}
     THEN stats.threatsBlocked + 1 ELSE stats.threatsBlocked]

\* The charts.  Raw scores are in thousandths as above (NoNumber is null or
\* absent, so the raw score -0.001 is not represented); the values of
\* ensemble_contributions are in thousandths of a percent; the values the
\* contribution chart displays have two decimals and are in hundredths.
ModuleNames == <<"ml", "lexical", "reputation", "behavior", "nlp">>

\* MODULE_WEIGHTS, in hundredths
MODULE_WEIGHTS == [ml |-> 60, lexical |-> 15, reputation |-> 15, behavior |-> 5, nlp |-> 5]

Scores(ml, lexical, reputation, behavior, nlp) ==
  [ml |-> ml, lexical |-> lexical, reputation |-> reputation, behavior |-> behavior,
   nlp |-> nlp]

\* result.ensemble_contributions
Contributions(present, values) == [present |-> present, values |-> values]

NoContributions ==
  Contributions(FALSE, Scores(NoNumber, NoNumber, NoNumber, NoNumber, NoNumber))

\* What the charts read of a scan response.
ChartResult(modules, ensemble_modules, ensemble_contributions) ==
  [modules |-> modules, ensemble_modules |-> ensemble_modules,
   ensemble_contributions |-> ensemble_contributions]

NoChartResult == ChartResult(NoContainer, NoContainer, NoContributions)

\* Variant: a raw score of exactly 1 is taken as a percentage.
toPercent_Below1(v) ==
  IF v = NoNumber THEN 0
  ELSE IF v < 1000 THEN MathRound(v * 100) ELSE MathRound(v)

\* toPercent of extractModuleScores
toPercent(v) ==
  IF v = NoNumber THEN 0
  ELSE IF v <= 1000 THEN MathRound(v * 100) ELSE MathRound(v)

extractModuleScores(data) ==
  IF data.modules.present
  THEN Scores(toPercent(data.modules.ml), toPercent(data.modules.lexical),
              toPercent(data.modules.reputation), toPercent(data.modules.behavior),
              toPercent(data.modules.nlp))
  ELSE IF data.ensemble_modules.present
  THEN Scores(toPercent(data.ensemble_modules.ml_model),
              toPercent(data.ensemble_modules.lexical),
              toPercent(data.ensemble_modules.reputation),
              toPercent(data.ensemble_modules.behavior),
              toPercent(data.ensemble_modules.nlp))
  ELSE Scores(0, 0, 0, 0, 0)

\* a / b rounded to the nearest integer, for a >= 0 and b > 0
RoundDiv(a, b) == (2 * a + b) \div (2 * b)

RECURSIVE SumSeq(_)
SumSeq(q) == IF q = <<>> THEN 0 ELSE Head(q) + SumSeq(Tail(q))

\* The chart's data: the entries with value != null && value > 0, each
\* through toFixed(2).  num[k] / den is the value of key k in percent.
Positive(num, den) ==
  LET keep == SelectSeq(ModuleNames, LAMBDA k : num[k] # NoNumber /\ num[k] > 0)
  IN  [i \in 1..Len(keep) |-> RoundDiv(num[keep[i]] * 100, den)]

\* createEnsembleContributionChart up to new Chart: the contributions it
\* takes from the response or computes, as the data it displays.
ensembleData(result) ==
  IF result.ensemble_contributions.present
  THEN Positive(result.ensemble_contributions.values, 1000)
  ELSE LET moduleScores     == extractModuleScores(result)
           rawContributions == [k \in DOMAIN MODULE_WEIGHTS |->
                                  moduleScores[k] * MODULE_WEIGHTS[k]]
           totalContribution ==
             SumSeq([i \in 1..Len(ModuleNames) |-> rawContributions[ModuleNames[i]]])
       IN  IF totalContribution > 0
           THEN Positive([k \in DOMAIN MODULE_WEIGHTS |-> rawContributions[k] * 100],
                         totalContribution)
           ELSE <<2000, 2000, 2000, 2000, 2000>>

\* state.charts.detection and state.charts.ensemble.  of is history: the
\* response the chart was made from.
NoDetectionChart == [drawn |-> FALSE, of |-> NoChartResult, data |-> Scores(0, 0, 0, 0, 0)]

NoEnsembleChart == [drawn |-> FALSE, of |-> NoChartResult, data |-> <<>>]

DetectionChart(result) ==
  [drawn |-> TRUE, of |-> result, data |-> extractModuleScores(result)]

\* With no data the old chart is destroyed and none is made.
EnsembleChart(result) ==
  [drawn |-> ensembleData(result) # <<>>, of |-> result, data |-> ensembleData(result)]

createEnhancedDetectionChart(result) ==
  /\ charts' = [charts EXCEPT !.detection = DetectionChart(result)]
  /\ UNCHANGED <<state, elements, scansPending, scanCount, scanned>>
  /\ UNCHANGED <<extensionVars, last, lookup, popupVars, pageVars>>

createEnsembleContributionChart(result) ==
  /\ charts' = [charts EXCEPT !.ensemble = EnsembleChart(result)]
  /\ UNCHANGED <<state, elements, scansPending, scanCount, scanned>>
  /\ UNCHANGED <<extensionVars, last, lookup, popupVars, pageVars>>

NoScan == [classification |-> Null, confidence |-> NoNumber, riskLevel |-> Null]

\* handleScan up to its await.  input: what the URL field holds.
handleScan(input) ==
  /\ scanCount < MaxScans
  /\ scanned' = NoResponse
  /\ IF input = "empty"
     THEN /\ elements' = [elements EXCEPT !.toast = "Please enter a URL to scan"]
          /\ UNCHANGED <<scansPending, scanCount>>
     ELSE IF input = "invalid"
     THEN /\ elements' = [elements EXCEPT !.toast = "Invalid URL format"]
          /\ UNCHANGED <<scansPending, scanCount>>
     ELSE /\ elements' = [elements EXCEPT !.resultCard = "hidden"]
          /\ scansPending' = scansPending + 1
          /\ scanCount' = scanCount + 1
  /\ UNCHANGED <<state, charts, extensionVars, last, lookup, popupVars, pageVars>>

\* The scan call of a handleScan resolves with the body data: displayResult,
\* saveToHistory, updateStats.
ScanResolved(data) ==
  /\ scansPending > 0
  /\ scansPending' = scansPending - 1
  /\ scanned' = data
  /\ LET mlConfidencePct == extractMLScore(data)
         riskLevel       == calculateRiskLevel(statusClass(mlConfidencePct), mlConfidencePct)
     IN  /\ elements' = [resultCard |-> "shown",
                         status |-> statusText(mlConfidencePct),
                         confidenceValue |-> mlConfidencePct,
                         riskLevel |-> riskLevel,
                         toast |-> "Scan completed successfully"]
         /\ state' = [currentScan |-> [classification |-> statusText(mlConfidencePct),
                                       confidence |-> mlConfidencePct,
                                       riskLevel |-> riskLevel],
                      history |-> saveToHistory(state.history, data),
                      stats |-> updateStats(state.stats, data)]
  /\ LET result == ChartResult(data.modules, data.ensemble_modules, NoContributions)
     IN  charts' = [detection |-> DetectionChart(result), ensemble |-> EnsembleChart(result)]
  /\ UNCHANGED <<scanCount, extensionVars, last, lookup, popupVars, pageVars>>

\* The scan call rejects: the catch of handleScan.
ScanRejected ==
  /\ scansPending > 0
  /\ scansPending' = scansPending - 1
  /\ scanned' = NoResponse
  /\ elements' = [elements EXCEPT !.toast = "Scan failed"]
  /\ UNCHANGED <<state, charts, scanCount, extensionVars, last, lookup, popupVars, pageVars>>

clearHistory(confirmed) ==
  /\ scanned' = NoResponse
  /\ IF confirmed
     THEN /\ state' = [state EXCEPT !.history = <<>>]
          /\ elements' = [elements EXCEPT !.toast = "History cleared"]
     ELSE UNCHANGED <<state, elements>>
  /\ UNCHANGED <<scansPending, scanCount, charts, extensionVars, last, lookup, popupVars, pageVars>>

(***************************************************************************)
(* The popup (part_007) and the message handlers of service_worker.js.     *)
(***************************************************************************)
\* What the popup shows: the visible container, the theme class of body,
\* the result title, and the stats it keeps in storage.  clicks is history:
\* the number of scans the user has started.
\* scansToday and threatsBlocked are the numbers the popup displays.
\* History: clicks counts the scans begun, scans and threats the calls of
\* incrementScanCount and incrementThreatCount, storageFailed tells whether
\* a storage call of one of them has been rejected, stale holds the URLs
\* whose cache entry was written before the latest rescan was requested.
NoPopup ==
  [view |-> "idle", theme |-> "none", title |-> Null,
   scansToday |-> 0, threatsBlocked |-> 0, clicks |-> 0,
   scans |-> 0, threats |-> 0, storageFailed |-> FALSE, stale |-> {}]

\* result.stats || { scansToday: 0, threatsBlocked: 0, ... }
NoStats == [scansToday |-> 0, threatsBlocked |-> 0]

\* A call of incrementScanCount ("scansToday") or incrementThreatCount
\* ("threatsBlocked") made by the callback of scan number scan, suspended at
\* its get or its set; read is the stats object it holds.
Increment(field, scan) ==
  [field |-> field, scan |-> scan, pc |-> "get", read |-> NoStats]

\* A runtime message and, once pc is "responded", the response passed to
\* sendResponse.  error "-" is an absent error field.  response is history:
\* how the scan result was obtained; rescan is history: the scan is the second
\* half of a rescan.
Message(type, sender, tabId, url) ==
  [type |-> type, sender |-> sender, tabId |-> tabId, url |-> url, pc |-> "sent",
   success |-> FALSE, error |-> "-", result |-> NullResult, response |-> "-",
   rescan |-> FALSE]

NoBadge == "unset"

\* updateBadge: reading .classification of null throws and is caught.
updateBadge(b, tabId, result) ==
  IF result.tag = "null" THEN b
  ELSE [b EXCEPT ![tabId] =
          CASE result.classification = "Phishing"   -> "!"
            [] result.classification = "Suspicious" -> "?"
            [] result.classification = "Legitimate" -> "check"
            [] OTHER                                -> ""]

\* updateTheme and updateResultHeader
themeOf(classification) ==
  CASE classification = "Phishing"   -> "phishing"
    [] classification = "Suspicious" -> "warning"
    [] OTHER                         -> "safe"

titleOf(classification) ==
  CASE classification = "Phishing"   -> "Phishing Detected"
    [] classification = "Suspicious" -> "Suspicious Website"
    [] OTHER                         -> "Website Appears Safe"

\* handleScan of the popup: showLoading, then the message to the worker.
SendScan(op, t) ==
  /\ popup.clicks < MaxScans
  /\ popup' = [popup EXCEPT !.view = "loading", !.clicks = @ + 1]
  /\ messages' = messages \cup {Message("SCAN_CURRENT_TAB", "popup", t, Null)}
  /\ last' = Last(op, "popup", t, tabUrl[t], "-", "-", FALSE, "-", 0, 0)
  /\ UNCHANGED <<badge, lookup, dashboardVars, pageVars>>
  /\ UNCHANGED <<pendingNavigations, blockedTabs, timers, checks, lastDetection,
                 tabUrl, navEvents, page, nextNav>>

\* The scan button, visible before the first scan and after an error.
PopupHandleScan(t) ==
  /\ popup.view \in {"idle", "error"}
  /\ SendScan("PopupHandleScan", t)
  /\ UNCHANGED cache

\* The rescan button of the result view: handleRescan sends CLEAR_CACHE.
PopupHandleRescan(t) ==
  /\ popup.view = "result"
  /\ popup.clicks < MaxScans
  /\ ~\E m \in messages : m.type = "CLEAR_CACHE"
  /\ messages' = messages \cup {Message("CLEAR_CACHE", "popup", t, Null)}
  /\ popup' = [popup EXCEPT !.stale = Keys(cache)]
  /\ last' = Last("PopupHandleRescan", "popup", t, tabUrl[t], "-", "-", FALSE, "-", 0, 0)
  /\ UNCHANGED <<badge, lookup, dashboardVars, pageVars>>
  /\ UNCHANGED extensionVars

\* Variant: clearCache leaves the entries in place.
clearCache_Keep(c) == c

\* APIClient.clearCache
clearCache(c) == <<>>

\* message CLEAR_CACHE: the worker clears the cache and answers.
handleClearCacheMessage(m) ==
  /\ m \in messages /\ m.type = "CLEAR_CACHE" /\ m.pc = "sent"
  /\ cache' = clearCache(cache)
  /\ messages' = (messages \ {m}) \cup {[m EXCEPT !.pc = "responded", !.success = TRUE]}
  /\ popup' = [popup EXCEPT !.stale = @ \cap Keys(cache')]
  /\ last' = Last("handleClearCache", "popup", m.tabId, Null, "-", "-", FALSE, "-", 0, 0)
  /\ UNCHANGED <<badge, lookup, dashboardVars, pageVars>>
  /\ UNCHANGED <<pendingNavigations, blockedTabs, timers, checks, lastDetection,
                 tabUrl, navEvents, page, nextNav>>

\* The callback handleRescan passed with CLEAR_CACHE: handleScan.
RescanCallback(m) ==
  /\ m \in messages /\ m.type = "CLEAR_CACHE" /\ m.pc = "responded"
  /\ messages' = (messages \ {m}) \cup
       {[Message("SCAN_CURRENT_TAB", "popup", m.tabId, Null) EXCEPT !.rescan = TRUE]}
  /\ popup' = [popup EXCEPT !.view = "loading", !.clicks = @ + 1]
  /\ last' = Last("RescanCallback", "popup", m.tabId, tabUrl[m.tabId], "-", "-",
                  FALSE, "-", 0, 0)
  /\ UNCHANGED <<badge, lookup, dashboardVars, pageVars>>
  /\ UNCHANGED extensionVars

\* The content script of a tab: checkingUrl is its lock, href the link whose
\* click it is checking, warned whether it shows the inline warning.
\* History: followed tells whether the browser followed the link as the
\* default action of the click, navigated whether the script set
\* window.location.href.
NoLink ==
  [checkingUrl |-> FALSE, href |-> Null, warned |-> FALSE,
   followed |-> FALSE, navigated |-> FALSE]

\* A click on a link to u in the page of tab t: handleLinkClick up to its
\* await.  The handler returns to the event dispatch without having called
\* preventDefault, so the browser carries out the click's default action.
\* While the lock is held the handler returns at once.
ContentCheckURL(t, u) ==
  /\ tabUrl[t] \in DeliveredUrls
  /\ IF link[t].checkingUrl
     THEN UNCHANGED <<messages, link, last>>
     ELSE /\ messages' = messages \cup {Message("CHECK_URL", "content", t, u)}
          /\ link' = [link EXCEPT ![t] =
               [checkingUrl |-> TRUE, href |-> u, warned |-> FALSE,
                followed |-> TRUE, navigated |-> FALSE]]
          /\ last' = Last("ContentCheckURL", "content", t, u, "-", "-", FALSE, "-", 0, 0)
  /\ UNCHANGED <<popup, badge, lookup, dashboardVars, auth, storedStats, increments>>
  /\ UNCHANGED extensionVars

\* What the worker passes to sendResponse once scanURL has returned.
\* handleCheckURL reads result.classification, which throws for null.
Responded(m, url, result, how) ==
  IF m.type = "CHECK_URL" /\ result.tag = "null"
  THEN [m EXCEPT !.pc = "responded", !.url = url, !.success = FALSE,
                 !.error = "TypeError", !.response = how]
  ELSE [m EXCEPT !.pc = "responded", !.url = url, !.success = TRUE,
                 !.result = result, !.response = how]

\* handleScanCurrentTab and handleCheckURL up to the await that suspends:
\* the fetch of scanURL, or none when scanURL answers locally.
HandleMessage(op, m, url) ==
  /\ m \in messages /\ m.pc = "sent"
  /\ cache' = scanURLLocalCache(cache, url)
  /\ LET r == scanURLLocal(cache, url)
     IN  IF r = MustFetch
         THEN /\ messages' = (messages \ {m}) \cup {[m EXCEPT !.pc = "fetch", !.url = url]}
              /\ badge' = badge
              /\ last' = Last(op, m.sender, m.tabId, url, "-", "-", TRUE, "-", 0, 0)
         ELSE /\ messages' = (messages \ {m}) \cup {Responded(m, url, r, "local")}
              /\ badge' = IF m.type = "SCAN_CURRENT_TAB"
                          THEN updateBadge(badge, m.tabId, r) ELSE badge
              /\ last' = Last(op, m.sender, m.tabId, url, r.classification, "-",
                              FALSE, "local", 0, 0)
  /\ popup' = [popup EXCEPT !.stale = @ \cap Keys(cache')]
  /\ UNCHANGED <<lookup, dashboardVars, pageVars>>
  /\ UNCHANGED <<pendingNavigations, blockedTabs, timers, checks, lastDetection,
                 tabUrl, navEvents, page, nextNav>>

\* message SCAN_CURRENT_TAB: the URL is that of the active tab
handleScanCurrentTab(m) ==
  /\ m.type = "SCAN_CURRENT_TAB"
  /\ HandleMessage("handleScanCurrentTab", m, tabUrl[m.tabId])

\* message CHECK_URL: the URL is the message's
handleCheckURL(m) ==
  /\ m.type = "CHECK_URL"
  /\ HandleMessage("handleCheckURL", m, m.url)

\* The Scoring Service call of a message handler finishes with outcome o.
MessageFetchComplete(m, o) ==
  /\ m \in messages /\ m.pc = "fetch"
  /\ cache' = scanURLResultCache(cache, m.url, o)
  /\ LET r == scanURLResult(o)
     IN  /\ messages' = (messages \ {m}) \cup {Responded(m, m.url, r, o.status)}
         /\ badge' = IF m.type = "SCAN_CURRENT_TAB"
                     THEN updateBadge(badge, m.tabId, r) ELSE badge
         /\ last' = Last("MessageFetchComplete", m.sender, m.tabId, m.url,
                         r.classification, "-", FALSE, o.status, 0, 0)
  /\ popup' = [popup EXCEPT !.stale =
       (IF o.status \in FetchFailures THEN @ ELSE @ \ {m.url}) \cap Keys(cache')]
  /\ UNCHANGED <<lookup, dashboardVars, pageVars>>
  /\ UNCHANGED <<pendingNavigations, blockedTabs, timers, checks, lastDetection,
                 tabUrl, navEvents, page, nextNav>>

\* The popup's sendMessage callback.  delivered = FALSE is
\* chrome.runtime.lastError.  displayResult switches the containers before
\* it reads result.classification, which throws for null.
PopupCallback(m, delivered) ==
  /\ m \in messages /\ m.type = "SCAN_CURRENT_TAB" /\ m.pc = "responded"
  /\ messages' = messages \ {m}
  /\ LET failed == ~delivered \/ m.error # "-"
         threat == ~failed /\ m.result.classification = "Phishing"
         shown  == IF failed THEN [popup EXCEPT !.view = "error"]
                   ELSE IF m.result.tag = "null" THEN [popup EXCEPT !.view = "result"]
                   ELSE [popup EXCEPT
                           !.view = "result",
                           !.theme = themeOf(m.result.classification),
                           !.title = titleOf(m.result.classification)]
     IN  /\ popup' = IF failed THEN shown
                     ELSE [shown EXCEPT !.scans = @ + 1,
                                        !.threats = IF threat THEN @ + 1 ELSE @]
         /\ increments' = increments \cup
              (IF failed THEN {} ELSE {Increment("scansToday", popup.clicks)}) \cup
              (IF threat THEN {Increment("threatsBlocked", popup.clicks)} ELSE {})
  /\ last' = Last("PopupCallback", "popup", m.tabId, m.url,
                  IF delivered THEN m.result.classification ELSE "-",
                  popup'.view, FALSE, IF delivered THEN m.response ELSE "lastError", 0, 0)
  /\ UNCHANGED <<badge, lookup, dashboardVars, auth, link, storedStats>>
  /\ UNCHANGED extensionVars

\* chrome.storage.local.get(['stats']) of an increment call settles: the
\* call increments its field of the object it has read and starts the set.
StatsGetComplete(i, ok) ==
  /\ i \in increments /\ i.pc = "get"
  /\ increments' = (increments \ {i}) \cup
       (IF ok
        THEN {[i EXCEPT !.pc = "set", !.read = [storedStats EXCEPT ![i.field] = @ + 1]]}
        ELSE {})
  /\ popup' = [popup EXCEPT !.storageFailed = @ \/ ~ok]
  /\ UNCHANGED <<messages, badge, last, lookup, dashboardVars, auth, link, storedStats>>
  /\ UNCHANGED extensionVars

\* chrome.storage.local.set({ stats }) of an increment call settles; the
\* call then displays the object it has written.
StatsSetComplete(i, ok) ==
  /\ i \in increments /\ i.pc = "set"
  /\ increments' = increments \ {i}
  /\ storedStats' = IF ok THEN i.read ELSE storedStats
  /\ popup' = IF ok
              THEN [popup EXCEPT !.scansToday = i.read.scansToday,
                                 !.threatsBlocked = i.read.threatsBlocked]
              ELSE [popup EXCEPT !.storageFailed = TRUE]
  /\ UNCHANGED <<messages, badge, last, lookup, dashboardVars, auth, link>>
  /\ UNCHANGED extensionVars

\* The legacy fields of the response as handleLinkClick reads them;
\* delivered = FALSE is chrome.runtime.lastError.
IsPhishing(m, delivered) ==
  delivered /\ m.success /\ m.result.classification = "Phishing"

\* result.confidence >= hundredths / 100; undefined compares false
ConfidenceAtLeast(m, hundredths) ==
  m.result.confidence # NoNumber /\ m.result.confidence * 100 >= hundredths

\* handleLinkClick after its await: the response to CHECK_URL has arrived.
\* proceed is the user's answer in the confirm dialog, threw tells whether
\* showInlineWarning raised.  preventDefault is called after the dispatch of
\* the click has ended and undoes nothing.
ContentCallback(m, delivered, proceed, threw) ==
  /\ m \in messages /\ m.sender = "content" /\ m.pc = "responded"
  /\ messages' = messages \ {m}
  /\ LET warn == IsPhishing(m, delivered) /\ ConfidenceAtLeast(m, 70)
         ask == warn /\ ~threw /\ ConfidenceAtLeast(m, 85)
     IN  /\ threw => warn
         /\ proceed => ask
         /\ link' = [link EXCEPT ![m.tabId] =
               [@ EXCEPT !.checkingUrl = FALSE,
                         !.warned = warn /\ ~threw,
                         !.navigated = ask /\ proceed]]
         /\ last' = Last("ContentCallback", "content", m.tabId, m.url,
                         IF delivered THEN m.result.classification ELSE "-",
                         IF ask /\ proceed THEN "Proceeded"
                         ELSE IF ask THEN "Declined"
                         ELSE IF warn THEN "Warn" ELSE "None",
                         FALSE, IF delivered THEN m.response ELSE "lastError", 0, 0)
  /\ UNCHANGED <<popup, badge, lookup, dashboardVars, auth, storedStats, increments>>
  /\ UNCHANGED extensionVars

(***************************************************************************)
(* frontend/js/auth-handler.js: the login modal of the dashboard.          *)
(***************************************************************************)
\* callback is authModalCallback, token whether localStorage holds a token,
\* loginBtn and signupBtn are "busy" while the form's handler awaits its
\* request.  History: shows counts the calls of showAuthModal, invoked the
\* calls of the callback passed to the latest one, authenticated tells
\* whether a login or signup has succeeded since the latest one.
NoAuth ==
  [modal |-> "hidden", title |-> Null, callback |-> Null, token |-> FALSE,
   loginError |-> FALSE, signupError |-> FALSE,
   loginBtn |-> "enabled", signupBtn |-> "enabled",
   shows |-> 0, invoked |-> 0, authenticated |-> FALSE]

\* actionTexts[action] || actionTexts['download']
ModalTitle(action) ==
  CASE action = "share" -> "Login to Share"
    [] action = "export" -> "Login to Export"
    [] OTHER -> "Login to Download"

\* shareResult and exportResult of script.js pass themselves as callback when
\* no token is stored; the login button passes null.
showAuthModal(action, callback) ==
  /\ ~auth.token
  /\ auth.shows < MaxShows
  /\ auth' = [auth EXCEPT !.modal = "shown", !.title = ModalTitle(action),
                          !.callback = callback, !.shows = @ + 1,
                          !.invoked = 0, !.authenticated = FALSE]
  /\ UNCHANGED <<extensionVars, last, lookup, dashboardVars, popupVars, link, storedStats, increments>>

\* closeAuthModal(): hides the modal, forgets the callback, resets the forms.
closeAuthModal(a) ==
  [a EXCEPT !.modal = "hidden", !.callback = Null,
            !.loginError = FALSE, !.signupError = FALSE]

\* The Escape key while the modal is shown.
EscapeKey ==
  /\ auth.modal = "shown"
  /\ auth' = closeAuthModal(auth)
  /\ UNCHANGED <<extensionVars, last, lookup, dashboardVars, popupVars, link, storedStats, increments>>

\* The fields of a form: its button and its error message.
BtnOf(form) == IF form = "login" THEN "loginBtn" ELSE "signupBtn"

ErrorOf(form) == IF form = "login" THEN "loginError" ELSE "signupError"

\* A form handler up to its await: valid tells whether the fields pass the
\* validation.
Submitted(a, form, valid) ==
  IF valid
  THEN [a EXCEPT ![BtnOf(form)] = "busy", ![ErrorOf(form)] = FALSE]
  ELSE [a EXCEPT ![ErrorOf(form)] = TRUE]

handleLogin(valid) ==
  /\ auth.modal = "shown"
  /\ auth.loginBtn = "enabled"
  /\ auth' = Submitted(auth, "login", valid)
  /\ UNCHANGED <<extensionVars, last, lookup, dashboardVars, popupVars, link, storedStats, increments>>

handleSignup(valid) ==
  /\ auth.modal = "shown"
  /\ auth.signupBtn = "enabled"
  /\ auth' = Submitted(auth, "signup", valid)
  /\ UNCHANGED <<extensionVars, last, lookup, dashboardVars, popupVars, link, storedStats, increments>>

\* The callback test that follows closeAuthModal() in both handlers.
ExecuteCallback(a) ==
  IF a.callback # Null
  THEN [a EXCEPT !.invoked = @ + 1, !.callback = Null]
  ELSE a

\* A form handler after its await: on an OK response the token is stored,
\* the modal is closed and the callback test runs; otherwise the error is
\* shown.  The finally block re-enables the button.
Settled(a, form, ok) ==
  LET a1 == IF ok
            THEN ExecuteCallback(closeAuthModal(
                   [a EXCEPT !.token = TRUE, !.authenticated = TRUE]))
            ELSE [a EXCEPT ![ErrorOf(form)] = TRUE]
  IN  [a1 EXCEPT ![BtnOf(form)] = "enabled"]

LoginSettled(ok) ==
  /\ auth.loginBtn = "busy"
  /\ auth' = Settled(auth, "login", ok)
  /\ UNCHANGED <<extensionVars, last, lookup, dashboardVars, popupVars, link, storedStats, increments>>

SignupSettled(ok) ==
  /\ auth.signupBtn = "busy"
  /\ auth' = Settled(auth, "signup", ok)
  /\ UNCHANGED <<extensionVars, last, lookup, dashboardVars, popupVars, link, storedStats, increments>>

(***************************************************************************)
(* The extension as a whole.                                               *)
(***************************************************************************)
\* Everything but the Decision Cache.
InitOther ==
  /\ pendingNavigations = {}
  /\ blockedTabs = {}
  /\ timers = {}
  /\ checks = {}
  /\ lastDetection = NoRecord
  /\ tabUrl = [t \in Tabs |-> "newtab"]
  /\ navEvents = {}
  /\ page = [t \in Tabs |-> NoPage]
  /\ nextNav = 1
  /\ last = NoLast
  /\ lookup = NoLookup
  /\ state = [currentScan |-> NoScan, history |-> <<>>,
              stats |-> [totalScans |-> 0, threatsBlocked |-> 0]]
  /\ elements = [resultCard |-> "hidden", status |-> Null, confidenceValue |-> NoNumber,
                 riskLevel |-> Null, toast |-> Null]
  /\ scansPending = 0
  /\ scanCount = 0
  /\ scanned = NoResponse
  /\ charts = [detection |-> NoDetectionChart, ensemble |-> NoEnsembleChart]
  /\ popup = NoPopup
  /\ messages = {}
  /\ badge = [t \in Tabs |-> NoBadge]
  /\ auth = NoAuth
  /\ link = [t \in Tabs |-> NoLink]
  /\ storedStats = NoStats
  /\ increments = {}

Init ==
  /\ cache = <<>>
  /\ InitOther

Next ==
  \/ \E t \in Tabs, u \in WebUrls : UserNavigate(t, u, 0)
  \/ \E t \in Tabs, u \in FrameUrls : UserNavigate(t, u, 1)
  \/ \E e \in navEvents : OnBeforeNavigate(e)
  \/ \E c \in checks, o \in FetchOutcomes : FetchComplete(c, o)
  \/ \E c \in checks, ok \in BOOLEAN : StorageSetComplete(c, ok)
  \/ \E c \in checks, ok \in BOOLEAN : TabsUpdateComplete(c, ok)
  \/ \E d \in TickSteps : Tick(d)
  \/ handleClearCache
  \/ \E t \in Tabs, ok \in BOOLEAN : BlockedPageLoaded(t, ok)
  \/ \E t \in Tabs, confirmed \in BOOLEAN, removed \in BOOLEAN : ProceedClick(t, confirmed, removed)

Spec == Init /\ [][Next]_vars

\* The extension under the scheduling the browser guarantees: queued events
\* are delivered, storage and tab operations settle, time passes and due
\* setTimeout callbacks run.  Nothing obliges the Scoring Service to answer.
LiveUrls == {"evil", "notgithub"}

\* When the Scoring Service answers at all: Phishing, or a network error.
LiveOutcomes ==
  { o \in FetchOutcomes :
      \/ o.status = "NetworkError"
      \/ o.status = "ok" /\ o.body.classification = "Phishing" }

NextLive ==
  \/ \E t \in Tabs, u \in LiveUrls : UserNavigate(t, u, 0)
  \/ \E e \in navEvents : OnBeforeNavigate(e)
  \/ \E c \in checks, o \in LiveOutcomes : FetchComplete(c, o)
  \/ \E c \in checks, ok \in BOOLEAN : StorageSetComplete(c, ok)
  \/ \E c \in checks, ok \in BOOLEAN : TabsUpdateComplete(c, ok)
  \/ \E d \in TickSteps : Tick(d)

SpecLive ==
  /\ Init /\ [][NextLive]_vars
  /\ WF_vars(\E e \in navEvents : OnBeforeNavigate(e))
  /\ WF_vars(\E c \in checks, ok \in BOOLEAN : StorageSetComplete(c, ok))
  /\ WF_vars(\E c \in checks, ok \in BOOLEAN : TabsUpdateComplete(c, ok))
  /\ WF_vars(\E d \in TickSteps : Tick(d))

\* The Decision Cache under arbitrary calls and passage of time.
NextCache ==
  \/ \E url \in CacheUrls, result \in BackendBodies : CallSetCached(url, result)
  \/ \E url \in CacheUrls : CallGetCached(url)
  \/ \E d \in CacheTickSteps : Tick(d)
  \/ handleClearCache

SpecCache == Init /\ [][NextCache]_vars

\* The dashboard.
NextDashboard ==
  \/ \E input \in {"empty", "invalid", "valid"} : handleScan(input)
  \/ \E data \in Responses : ScanResolved(data)
  \/ ScanRejected
  \/ \E confirmed \in BOOLEAN : clearHistory(confirmed)

SpecDashboard == Init /\ [][NextDashboard]_vars

\* The Decision Cache near its limit: the worker has cached the results of
\* n distinct URLs, numbered in the order of their insertion, and setCached,
\* getCached and clearCache are called for the oldest of them and ExtraKeys
\* URLs more.
ExtraKeys == 2

FillSizes == {0, CACHE_LIMIT - 1, CACHE_LIMIT}

Filled(n) ==
  [i \in 1..n |-> [url |-> ToString(i), result |-> Result("Legitimate", 5, "backend"),
                   age |-> 0]]

FillKeys == {ToString(k) : k \in {1} \cup (CACHE_LIMIT + 1)..(CACHE_LIMIT + ExtraKeys)}

FillBodies == {Result("Phishing", NoNumber, "backend")}

InitFill ==
  /\ cache \in {Filled(n) : n \in FillSizes}
  /\ InitOther

NextCacheFill ==
  \/ \E url \in FillKeys, result \in FillBodies : CallSetCached(url, result)
  \/ \E url \in FillKeys : CallGetCached(url)
  \/ Tick(CACHE_TTL_MS + 1)
  \/ handleClearCache

SpecCacheFill == InitFill /\ [][NextCacheFill]_vars

\* The charts, made from responses whose module scores cover the scales,
\* the rounding cases, null, and values outside 0..100, with and without
\* ensemble_contributions.
RawScores == {NoNumber, 0, 5, 500, 1000, 1500, 74500, 100000, 150000, -500, -5000}

ScoreVectors ==
  { Scores(ml, 0, 0, 0, 0) : ml \in RawScores } \cup
  { Scores(900, x, 200, NoNumber, 100000) : x \in RawScores } \cup
  { Scores(333, 333, 333, 333, 333) }

ContainerOf(v, inModules) ==
  IF inModules
  THEN Container(TRUE, v.ml, NoNumber, Others(v.lexical, v.reputation, v.behavior, v.nlp))
  ELSE Container(TRUE, NoNumber, v.ml, Others(v.lexical, v.reputation, v.behavior, v.nlp))

SuppliedContributions ==
  { NoContributions,
    Contributions(TRUE, Scores(60000, 15000, 15000, 5000, 5000)),
    Contributions(TRUE, Scores(33333, 33333, 33334, 0, NoNumber)),
    Contributions(TRUE, Scores(50000, 10000, 0, 0, 0)) }

ChartResults ==
  { ChartResult(ContainerOf(v, TRUE), NoContainer, c) :
      v \in ScoreVectors, c \in SuppliedContributions } \cup
  { ChartResult(NoContainer, ContainerOf(v, FALSE), NoContributions) : v \in ScoreVectors } \cup
  { ChartResult(ContainerOf(Scores(333, 333, 333, 333, 333), TRUE),
                ContainerOf(Scores(900, 0, 200, NoNumber, 100000), FALSE),
                NoContributions) } \cup
  { NoChartResult }

NextCharts ==
  \/ \E result \in ChartResults : createEnhancedDetectionChart(result)
  \/ \E result \in ChartResults : createEnsembleContributionChart(result)

SpecCharts == Init /\ [][NextCharts]_vars

\* The popup and the worker's handler of its message.  The tabs navigate;
\* what the guard does with the navigations is Spec's subject.
PopupUrls == {"evil", "github"}

PopupOutcomes ==
  { o \in FetchOutcomes :
      \/ o.status \in {"NetworkError", "HttpError"}
      \/ o.status = "ok" /\ o.body.classification \in {"Phishing", "Legitimate", "undefined"} }

NextPopup ==
  \/ \E t \in Tabs, u \in PopupUrls : UserNavigate(t, u, 0)
  \/ \E t \in Tabs : PopupHandleScan(t)
  \/ \E t \in Tabs : PopupHandleRescan(t)
  \/ \E m \in messages : handleClearCacheMessage(m)
  \/ \E m \in messages : RescanCallback(m)
  \/ \E m \in messages : handleScanCurrentTab(m)
  \/ \E m \in messages, o \in PopupOutcomes : MessageFetchComplete(m, o)
  \/ \E m \in messages, delivered \in BOOLEAN : PopupCallback(m, delivered)
  \/ \E i \in increments, ok \in BOOLEAN : StatsGetComplete(i, ok)
  \/ \E i \in increments, ok \in BOOLEAN : StatsSetComplete(i, ok)

SpecPopup == Init /\ [][NextPopup]_vars

\* The content script and the worker's handler of its message.
LinkUrls == {"evil", "github", "newtab"}

\* What the Scoring Service answers to the checks of the content script.
ContentOutcomes ==
  [status : {"NetworkError"}, body : {NullResult}] \cup
  [status : {"ok"},
   body : { Result("Phishing", 92, "backend"), Result("Phishing", 0, "backend"),
            Result("Legitimate", 5, "backend"), NullResult }]

NextContent ==
  \/ \E t \in Tabs, u \in PopupUrls : UserNavigate(t, u, 0)
  \/ \E t \in Tabs, u \in LinkUrls : ContentCheckURL(t, u)
  \/ \E m \in messages : handleCheckURL(m)
  \/ \E m \in messages, o \in ContentOutcomes : MessageFetchComplete(m, o)
  \/ \E m \in messages, delivered \in BOOLEAN, proceed \in BOOLEAN, threw \in BOOLEAN :
       ContentCallback(m, delivered, proceed, threw)

SpecContent == Init /\ [][NextContent]_vars

\* A rescan of the popup while the content script of the same tab checks a
\* link to the page's own URL.
RescanOutcomes ==
  [status : {"NetworkError"}, body : {NullResult}] \cup
  [status : {"ok"},
   body : { Result("Phishing", 92, "backend"), Result("Legitimate", 5, "backend") }]

NextRescan ==
  \/ UserNavigate(1, "evil", 0)
  \/ PopupHandleScan(1)
  \/ PopupHandleRescan(1)
  \/ \E m \in messages : handleClearCacheMessage(m)
  \/ \E m \in messages : RescanCallback(m)
  \/ \E m \in messages : handleScanCurrentTab(m)
  \/ ContentCheckURL(1, "evil")
  \/ \E m \in messages : handleCheckURL(m)
  \/ \E m \in messages, o \in RescanOutcomes : MessageFetchComplete(m, o)
  \/ \E m \in messages : PopupCallback(m, TRUE)
  \/ \E m \in messages, proceed \in BOOLEAN : ContentCallback(m, TRUE, proceed, FALSE)

SpecRescan == Init /\ [][NextRescan]_vars

\* The login modal of the dashboard.
ModalCalls == { <<"share", "shareResult">>, <<"export", "exportResult">>,
                <<"login", Null>> }

NextAuth ==
  \/ \E call \in ModalCalls : showAuthModal(call[1], call[2])
  \/ EscapeKey
  \/ \E valid \in BOOLEAN : handleLogin(valid)
  \/ \E valid \in BOOLEAN : handleSignup(valid)
  \/ \E ok \in BOOLEAN : LoginSettled(ok)
  \/ \E ok \in BOOLEAN : SignupSettled(ok)

SpecAuth == Init /\ [][NextAuth]_vars

(***************************************************************************)
(* Properties of the navigation guard.                                     *)
(***************************************************************************)
\* Steps in which handleNavigation obtains its scan result and decides.
Decided == last.op \in {"OnBeforeNavigate", "FetchComplete"} /\ last.verdict # "-"

\* Steps in which a check that decided to block finishes.
BlockFinished == last.decision \in {"Done", "Failed"}

\* The BlockRecord write of the check that just finished was rejected.
SetRejected == last.op = "StorageSetComplete" /\ last.decision = "Failed"

\* No check issues two writes or two redirects, and the navigation event of
\* a redirect starts no check.
NoRedirectLoop ==
  /\ \A c \in checks : c.writes <= 1 /\ c.redirects <= 1 /\ c.origin # "redirect"
  /\ (last.op = "OnBeforeNavigate" /\ last.origin = "redirect")
        => last.decision = "Ignored" /\ ~last.fetched

\* C1 as stated: a navigation whose scan result is Phishing issues exactly
\* one BlockRecord write and exactly one redirect, and the navigation event
\* fired by the redirect starts no further check or redirect.
C1_ExactlyOneWriteAndRedirect ==
  /\ NoRedirectLoop
  /\ (BlockFinished /\ last.verdict = "Phishing")
        => last.writes = 1 /\ last.redirects = 1

\* C1 amended: a navigation whose scan result is Phishing issues exactly one
\* BlockRecord write; it issues exactly one redirect when that write
\* succeeds and none when the write is rejected; the navigation event fired
\* by the redirect starts no further check or redirect.
C1_OneWriteThenOneRedirect ==
  /\ NoRedirectLoop
  /\ (BlockFinished /\ last.verdict = "Phishing")
        => /\ last.writes = 1
           /\ last.redirects = IF SetRejected THEN 0 ELSE 1

\* The redirect's own navigation event has been delivered and dropped while
\* the tab shows the warning page.
C1_Witness ==
  /\ last.op = "OnBeforeNavigate" /\ last.origin = "redirect"
  /\ last.decision = "Ignored"
  /\ tabUrl[last.tabId] = BlockedPage

C3_FailOpen ==
  /\ (last.op = "FetchComplete" /\ last.response \in FetchFailures)
        => /\ last.decision = "Allow"
           /\ last.writes = 0 /\ last.redirects = 0
  /\ \A c \in checks : c.response \notin FetchFailures

\* A call that could not be parsed has ended in "allow".
C3_Witness ==
  /\ last.op = "FetchComplete" /\ last.response = "ParseError"
  /\ last.decision = "Allow"

\* The URLs whose hostname equals an allow-list entry or ends with "." and
\* an entry, as the claim states the test.
AllowListed ==
  { u \in WebUrls \cup {BlockedPage, "newtab"} :
      \E i \in 1..Len(WHITELIST) :
        \/ Hostname(Href(u)) = WHITELIST[i]
        \/ EndsWith(Hostname(Href(u)), <<".">> \o WHITELIST[i]) }

\* C4: for a URL on the allow-list the Scoring Service is never called,
\* nothing is cached, and the guard's decision is never to block.
C4_AllowListNeverScored ==
  /\ \A c \in checks : c.url \notin AllowListed
  /\ \A i \in 1..Len(cache) : cache[i].url \notin AllowListed
  /\ (last.op \in {"OnBeforeNavigate", "FetchComplete"} /\ last.url \in AllowListed)
        => /\ ~last.fetched
           /\ last.decision \in {"Allow", "Ignored"}
           /\ last.verdict \in {"Legitimate", "-"}

\* A navigation to a subdomain of an allow-list entry has been allowed
\* without a call.
C4_Witness ==
  /\ AllowListed = {"github", "docs"}
  /\ last.op = "OnBeforeNavigate" /\ last.url = "docs"
  /\ last.decision = "Allow" /\ last.verdict = "Legitimate" /\ ~last.fetched

(***************************************************************************)
(* Properties of the dashboard's classification.                           *)
(***************************************************************************)
\* The responses of the Scoring Service that differ from d at most in the
\* lexical, reputation, behavior and NLP module scores.
OtherModulesVaried(d) ==
  { e \in Responses :
      /\ e.modules.present = d.modules.present
      /\ e.modules.ml = d.modules.ml
      /\ e.modules.ml_model = d.modules.ml_model
      /\ e.ensemble_modules.present = d.ensemble_modules.present
      /\ e.ensemble_modules.ml = d.ensemble_modules.ml
      /\ e.ensemble_modules.ml_model = d.ensemble_modules.ml_model
      /\ e.ml_confidence = d.ml_confidence
      /\ e.ensemble_score = d.ensemble_score
      /\ e.confidence = d.confidence
      /\ e.classification = d.classification }

\* C5: the classification the dashboard has just displayed and stored for a
\* response is the one it displays and stores for every response that agrees
\* with it on the primary score source and differs only in the lexical,
\* reputation, behavior or NLP module scores.
C5_ClassificationFromMLScoreOnly ==
  scanned # NoResponse =>
    \A e \in OtherModulesVaried(scanned) :
      /\ statusText(extractMLScore(e)) = elements.status
      /\ statusText(extractMLScore(e)) = state.currentScan.classification
      /\ historyEntry(e).classification = state.history[1].classification

\* A response with a low ML score and a high reputation score has been
\* displayed as SAFE and stored as Legitimate.
C5_Witness ==
  /\ scanned # NoResponse
  /\ scanned.modules.ml = 390 /\ scanned.modules.reputation = 950
  /\ Cardinality(OtherModulesVaried(scanned)) > 1
  /\ elements.status = "SAFE"
  /\ state.history[1].classification = "Legitimate"

\* The classes as the claim states them, for a percentage p.
Classify(p) == IF p >= 75 THEN "PHISHING" ELSE IF p >= 40 THEN "SUSPICIOUS" ELSE "SAFE"

\* The displayed class and the stored class that name the same class.
SameClass ==
  { <<"PHISHING", "Phishing">>, <<"SUSPICIOUS", "Suspicious">>, <<"SAFE", "Legitimate">> }

\* A response whose ML score is the integer percentage p.
ResponseWithScore(p) ==
  Response(Container(TRUE, IF p <= 1 THEN p * 10 ELSE p * 1000, NoNumber,
                     Others(50, 50, 50, 50)),
           NoContainer, NoNumber, NoNumber, NoNumber, "Legitimate")

C7_CacheReturnsOnlyFreshEntries ==
  last.op = "getCached" =>
    /\ lookup.afterPut => lookup.value = lookup.put /\ lookup.age = 0
    /\ lookup.age \in 0..CACHE_TTL_MS => lookup.value = lookup.stored
    /\ lookup.age > CACHE_TTL_MS =>
         lookup.value = NullResult /\ MapIndex(cache, lookup.url) = 0
    /\ lookup.age = NoNumber => lookup.value = NullResult
    /\ lookup.value # NullResult => lookup.age \in 0..CACHE_TTL_MS

\* getCached has found an entry older than the TTL and returned null.
C7_Witness ==
  /\ last.op = "getCached"
  /\ lookup.age > CACHE_TTL_MS
  /\ lookup.stored # NullResult
  /\ lookup.value = NullResult

(***************************************************************************)
(* Properties of the guard under concurrent navigations and tabs.          *)
(***************************************************************************)
\* C8: a check that was superseded by a newer navigation of its tab to
\* another URL issues no BlockRecord write and no redirect while that other
\* URL is the tab's navigation target.
C8_StaleResultDiscarded ==
  \A c \in checks :
    (c.superseded /\ c.pc \in {"set", "update"}) => c.active = c.url

\* C9: the warning page of a tab displays the record written by the block of
\* that same tab, for the URL that was blocked there.
C9_RecordIsTabScoped ==
  \A t \in Tabs :
    (page[t].loaded /\ page[t].shownUrl # Null)
       => page[t].fromTab = t /\ page[t].shownUrl = page[t].forUrl

\* C10: the navigation started by a confirmed "proceed anyway" is not
\* blocked by the guard.
C10_ProceedBypassesGuard ==
  /\ \A c \in checks : c.origin = "proceed" => c.pc \notin {"set", "update"}
  /\ (Decided /\ last.origin = "proceed") => last.decision # "Block"

(***************************************************************************)
(* Properties of the warning page.                                         *)
(***************************************************************************)
\* C11: a click on "proceed anyway" changes the tab's location only when the
\* user has confirmed, the location is then the original URL and the
\* BlockRecord has been deleted by the time the navigation is issued; when
\* the user declines, or no original URL is known, neither the BlockRecord
\* nor the tab's location changes.
C11_ProceedOnlyAfterConfirmAndDelete ==
  [][ last'.op = "ProceedClick" =>
        /\ tabUrl' # tabUrl =>
             /\ last'.decision = "Confirmed"
             /\ tabUrl'[last'.tabId] = page[last'.tabId].originalUrl
             /\ ~lastDetection'.present
        /\ last'.decision = "Declined" =>
             /\ lastDetection' = lastDetection
             /\ tabUrl' = tabUrl ]_vars

(***************************************************************************)
(* Progress of the guard.                                                  *)
(***************************************************************************)
\* C12: every navigation check eventually finishes, also when the Scoring
\* Service never answers, and its pending-check record is eventually
\* removed.
C12_EveryCheckFinishes ==
  /\ (checks # {}) ~> (checks = {})
  /\ \A t \in Tabs, u \in LiveUrls :
       (<<t, u>> \in pendingNavigations) ~> (<<t, u>> \notin pendingNavigations)

\* C13: every entry of blockedTabs is eventually removed, whether the write
\* and the redirect succeed or fail, and a navigation event of a tab that is
\* not in blockedTabs, to a URL that tab is not already being checked for, is
\* never skipped: the guard scans it.
C13_LockAlwaysReleased ==
  /\ \A t \in Tabs : (t \in blockedTabs) ~> (t \notin blockedTabs)
  /\ [][ /\ last'.op = "OnBeforeNavigate"
         /\ last'.url \in DeliveredUrls
         /\ last'.tabId \notin blockedTabs
         /\ <<last'.tabId, last'.url>> \notin pendingNavigations
         => /\ last'.decision # "Ignored"
            /\ <<last'.tabId, last'.url>> \in pendingNavigations' ]_vars

\* A tab whose block stored the record has lost its lock, and its next
\* navigation, to another URL, is sent to the Scoring Service.
C13_Witness ==
  /\ last.op = "OnBeforeNavigate" /\ last.fetched
  /\ lastDetection.present /\ lastDetection.byTab = last.tabId
  /\ lastDetection.url # last.url
  /\ last.tabId \notin blockedTabs

\* A check of the pair of event e is in flight.
InFlight(e) == \E c \in checks : c.tabId = e.tabId /\ c.url = e.url

\* Another check concerns e's tab or e's URL.
OtherInFlight(e) ==
  \E c \in checks : (c.tabId = e.tabId /\ c.url # e.url) \/ (c.tabId # e.tabId /\ c.url = e.url)

\* The event a step of OnBeforeNavigate consumes.
Handled == navEvents \ navEvents'

FailedScan == last.op = "PopupCallback" /\ last.response \in FetchFailures

\* C15: when the Scoring Service call of a scan started from the popup fails,
\* the popup shows its error state, where the scan button is offered again,
\* and not a result.
C15_FailedScanShowsError == FailedScan => popup.view = "error"

\* URLs with a scheme internal to the browser.
InternalUrls ==
  {u \in Urls : Scheme(Href(u)) \in { <<"c","h","r","o","m","e">>,
                                     <<"c","h","r","o","m","e","-","e","x","t","e","n","s","i","o","n">>,
                                     <<"a","b","o","u","t">> }}

\* C16: no step sends a request to the Scoring Service for a URL with an
\* internal scheme, whether it handles a navigation event, SCAN_CURRENT_TAB
\* or CHECK_URL.
C16_NoRequestForInternalUrls == last.fetched => last.url \notin InternalUrls

(***************************************************************************)
(* Properties of the Decision Cache's size limit.                          *)
(***************************************************************************)
\* C17: the cache never holds more than CACHE_LIMIT entries; a setCached
\* call leaves its own entry in the cache; when it adds a key to a full
\* cache the one entry it removes is the first in insertion order, and
\* otherwise it removes none.
C17_EvictsOldestOnly ==
  /\ [](Len(cache) <= CACHE_LIMIT)
  /\ [][ last'.op = "setCached" =>
           /\ last'.url \in Keys(cache')
           /\ cache'[MapIndex(cache', last'.url)].result = lookup'.value
           /\ IF Len(cache) = CACHE_LIMIT /\ last'.url \notin Keys(cache)
              THEN /\ Keys(cache') = (Keys(cache) \ {cache[1].url}) \cup {last'.url}
                   /\ \A i \in 1..(CACHE_LIMIT - 1) : cache'[i].url = cache[i + 1].url
                   /\ cache'[CACHE_LIMIT].url = last'.url
              ELSE Keys(cache) \subseteq Keys(cache') ]_vars

\* A setCached call has evicted an entry from the full cache.
C17_Witness ==
  /\ last.op = "setCached" /\ last.response # "-"
  /\ Len(cache) = CACHE_LIMIT

(***************************************************************************)
(* Properties of the dashboard's score normalizer and charts.              *)
(***************************************************************************)
\* The raw score of module k that extractModuleScores reads in result.
RawOf(result, k) ==
  IF result.modules.present THEN result.modules[k]
  ELSE IF result.ensemble_modules.present
  THEN (IF k = "ml" THEN result.ensemble_modules.ml_model ELSE result.ensemble_modules[k])
  ELSE NoNumber

\* C18: the score the detection chart shows for a module is 0 when the raw
\* score r is null or absent, r * 100 rounded when 0 <= r <= 1, and r rounded
\* when r > 1; extractMLScore agrees for a numeric modules.ml.
C18_NormalizerValues ==
  charts.detection.drawn =>
    \A i \in 1..Len(ModuleNames) :
      LET k == ModuleNames[i]
          r == RawOf(charts.detection.of, k)
          n == charts.detection.data[k]
      IN  /\ r = NoNumber => n = 0
          /\ r >= 0 /\ r <= 1000 => n = (r * 100 + 500) \div 1000
          /\ r > 1000 => n = (r + 500) \div 1000
          /\ k = "ml" /\ r >= 0 /\ charts.detection.of.modules.present
               => n = extractMLScore(Response(charts.detection.of.modules,
                                              charts.detection.of.ensemble_modules,
                                              NoNumber, NoNumber, NoNumber, "-"))

\* The detection chart shows a null score, a fraction that rounds up, the
\* fraction 1 and a percentage.
C18_Witness ==
  /\ charts.detection.drawn
  /\ {RawOf(charts.detection.of, ModuleNames[i]) : i \in 1..Len(ModuleNames)}
       = {900, 5, 200, NoNumber, 100000}

\* C19: every score the normalizer returns is a percentage between 0 and 100.
C19_NormalizerInRange ==
  charts.detection.drawn =>
    \A i \in 1..Len(ModuleNames) :
      /\ charts.detection.data[ModuleNames[i]] >= 0
      /\ charts.detection.data[ModuleNames[i]] <= 100

\* C20: the contributions the ensemble chart displays sum to 100 within 0.1.
C20_ContributionsSumTo100 ==
  charts.ensemble.drawn =>
    /\ SumSeq(charts.ensemble.data) >= 10000 - 10
    /\ SumSeq(charts.ensemble.data) <= 10000 + 10

(***************************************************************************)
(* Properties of the dashboard's risk level.                               *)
(***************************************************************************)
\* The risk level the claim gives for a displayed classification and score.
RiskOf(classification, p) ==
  CASE classification = "PHISHING" /\ p >= 90 -> "Critical"
    [] classification = "PHISHING" /\ p >= 70 /\ p < 90 -> "High"
    [] classification = "PHISHING" /\ p < 70 -> "Medium"
    [] classification = "SUSPICIOUS" -> "Medium"
    [] OTHER -> "Low"

\* C21: for every score p in 0..100 the risk level is Critical for Phishing
\* with p >= 90, High for Phishing with 70 <= p < 90, Medium for Phishing
\* with p < 70 and for Suspicious, Low for Safe; the level the dashboard
\* displays and stores after a scan is the one of the class and score it shows.
C21_RiskLevelTable ==
  /\ \A p \in 0..100 :
       /\ calculateRiskLevel(statusClass(p), p) = RiskOf(statusText(p), p)
       /\ calculateRiskLevel("danger", p) = RiskOf("PHISHING", p)
       /\ calculateRiskLevel("warning", p) = RiskOf("SUSPICIOUS", p)
       /\ calculateRiskLevel("safe", p) = RiskOf("SAFE", p)
  /\ scanned # NoResponse =>
       /\ elements.riskLevel = RiskOf(elements.status, elements.confidenceValue)
       /\ state.currentScan.riskLevel = elements.riskLevel

\* The response with the ML score 0.92 is displayed: 92, PHISHING, Critical.
C21_Witness ==
  /\ scanned # NoResponse /\ scanned.modules.ml = 920
  /\ elements.confidenceValue = 92 /\ elements.status = "PHISHING"
  /\ elements.riskLevel = "Critical"

(***************************************************************************)
(* Further properties of the navigation guard.                             *)
(***************************************************************************)
\* C22: the step that handles a navigation event of a sub-frame calls no
\* Scoring Service, starts no check, and leaves pendingNavigations,
\* blockedTabs, the cache, the timers and the BlockRecord unchanged.
C22_SubFrameIgnored ==
  [][ last'.op = "OnBeforeNavigate" =>
        \A e \in Handled :
          e.frameId # 0 =>
            /\ ~last'.fetched /\ last'.decision = "Ignored"
            /\ checks' = checks
            /\ pendingNavigations' = pendingNavigations
            /\ blockedTabs' = blockedTabs
            /\ cache' = cache
            /\ timers' = timers
            /\ lastDetection' = lastDetection ]_vars

\* An event for a web URL was ignored although its tab is not locked and the
\* pair is not being checked: it was a sub-frame's.
C22_Witness ==
  /\ last.op = "OnBeforeNavigate" /\ last.decision = "Ignored"
  /\ last.url \in FrameUrls
  /\ last.tabId \notin blockedTabs
  /\ <<last.tabId, last.url>> \notin pendingNavigations
  /\ cache = <<>> /\ checks = {}

\* The BlockRecord in storage is the one the check of tab t for url wrote.
RecordOf(d, t, url) == d.present /\ d.url = url /\ d.byTab = t

\* blockNavigation marks the tab and has stored the record when it issues
\* the redirect.
C23_StoredBeforeRedirect ==
  [][ (last'.op = "StorageSetComplete" /\ last'.decision = "Redirect") =>
        /\ RecordOf(lastDetection', last'.tabId, last'.url)
        /\ last'.tabId \in blockedTabs' ]_vars

\* The warning page finds the record of its own block when it loads.
C23_LoadsWithItsRecord ==
  [][ last'.op = "BlockedPageLoaded" =>
        RecordOf(lastDetection, last'.tabId, last'.url) ]_vars

\* A failed block leaves neither the suppression entry nor the record.
C23_FailureLeavesNothing ==
  [][ (last'.op \in {"StorageSetComplete", "TabsUpdateComplete"}
         /\ last'.decision = "Failed") =>
        /\ last'.tabId \notin blockedTabs'
        /\ ~RecordOf(lastDetection', last'.tabId, last'.url) ]_vars

\* C23: on a block decision the tab is marked as redirecting and the
\* BlockRecord is stored before the redirect is issued, the warning page
\* never loads without the record of its block, and when storing the record
\* or issuing the redirect fails the suppression entry of the tab is removed
\* at once and nothing of the block remains.
C23_BlockIsAllOrNothing ==
  /\ C23_StoredBeforeRedirect
  /\ C23_LoadsWithItsRecord
  /\ C23_FailureLeavesNothing

\* The entries the cache holds for a URL.
EntriesFor(c, url) == {i \in 1..Len(c) : c[i].url = url}

\* The cache holds exactly one entry for url, and it contains result.
HoldsOnly(c, url, result) ==
  /\ Cardinality(EntriesFor(c, url)) = 1
  /\ \A i \in EntriesFor(c, url) : c[i].result = result

\* Check c was calling the Scoring Service while another call for the same
\* URL, the one the last step completed, was in flight.
SecondOfTwo(c) ==
  /\ c.pc = "fetch"
  /\ last.op = "FetchComplete" /\ last.response # "-"
  /\ last.url = c.url

ScoresIn(container, mlField) ==
  Scores(toPercent(container[mlField]), toPercent(container.lexical),
         toPercent(container.reputation), toPercent(container.behavior),
         toPercent(container.nlp))

\* The response carries module scores in one of its two places.
HasScores(r) == r.modules.present \/ r.ensemble_modules.present

\* C25: the scores charted are read from the flat modules when present,
\* otherwise from the nested ensemble_modules, and when neither is present
\* what the caller receives differs from what it receives for any response
\* that does carry scores, all-zero ones included.
C25_FallbackIsObservable ==
  charts.detection.drawn =>
    LET r == charts.detection.of
        data == charts.detection.data
    IN  /\ r.modules.present => data = ScoresIn(r.modules, "ml")
        /\ (~r.modules.present /\ r.ensemble_modules.present) =>
              data = ScoresIn(r.ensemble_modules, "ml_model")
        /\ ~HasScores(r) =>
              \A r2 \in ChartResults : HasScores(r2) => extractModuleScores(r2) # data

(***************************************************************************)
(* Properties of the login modal.                                          *)
(***************************************************************************)
\* C26: the callback passed to showAuthModal is invoked exactly once when a
\* login or signup succeeds while the modal it was passed to is shown, at
\* most once in any case, and never unless a login or signup has succeeded
\* since the modal was shown.
C26_CallbackOnceAfterAuth ==
  [][ /\ auth'.invoked <= 1
      /\ auth'.invoked > 0 => auth'.authenticated
      /\ (auth.modal = "shown" /\ auth.callback # Null
            /\ ~auth.authenticated /\ auth'.authenticated) =>
           auth'.invoked = 1 ]_vars

(***************************************************************************)
(* Properties of the content script's link check.                          *)
(***************************************************************************)
\* C27: when the check of a clicked link reports phishing with confidence
\* of at least 0.7 the browser has not followed the link as a result of the
\* click, and the tab goes to the link only if the confidence is at least
\* 0.85 and the user confirmed; the lock is released when the check ends,
\* however it ends.
C27_PhishingLinkNotFollowed ==
  [][ last'.op = "ContentCallback" =>
        LET l == link'[last'.tabId]
        IN  /\ ~l.checkingUrl
            /\ last'.decision \in {"Warn", "Declined", "Proceeded"} =>
                  /\ ~l.followed
                  /\ l.navigated => last'.decision = "Proceeded" ]_vars

(***************************************************************************)
(* Properties of the popup's statistics.                                   *)
(***************************************************************************)
\* C29: once the increment calls of the popup's scans have finished, with no
\* storage call rejected, the stored stats count every scan in scansToday
\* and every Phishing result in threatsBlocked: each scan added exactly one
\* to each counter it incremented, however the calls interleaved.
C29_NoIncrementLost ==
  (increments = {} /\ ~popup.storageFailed) =>
    /\ storedStats.scansToday = popup.scans
    /\ storedStats.threatsBlocked = popup.threats

(***************************************************************************)
(* Properties of the popup's rescan.                                       *)
(***************************************************************************)
\* The URLs scanURL answers for without the cache or the Scoring Service.
AnsweredLocally == SearchPageUrls \cup WhitelistedUrls

Written(c, c1) ==
  { i \in 1..Len(c1) :
      ~\E j \in 1..Len(c) :
         /\ c[j].url = c1[i].url /\ c[j].result = c1[i].result
         /\ c[j].age <= c1[i].age }

\* C30: the cache is written only when a Scoring Service call completes
\* with an OK response, with the body of that response under the scanned
\* URL; no entry holds an error, allow-list or skip result or belongs to a
\* URL answered without the service; a failed call leaves the cache as it
\* was, and the next scan of its URL that finds no entry calls the service.
C30_OnlyOkBodiesCached ==
  /\ [](\A i \in 1..Len(cache) :
          /\ cache[i].url \notin AnsweredLocally
          /\ cache[i].result \notin {ErrorResult, WhitelistedResult, SkippedResult})
  /\ [][ \A i \in Written(cache, cache') :
            /\ last'.op = "FetchComplete" /\ last'.response = "ok"
            /\ cache'[i].url = last'.url
            /\ cache'[i].result \in BackendBodies ]_vars
  /\ [][ (last'.op = "FetchComplete" /\ last'.response \in FetchFailures) =>
            cache' = cache ]_vars
  /\ [][ \A e \in navEvents :
            (/\ last.op = "FetchComplete" /\ last.response \in FetchFailures
             /\ e.url = last.url /\ OnBeforeNavigate(e)
             /\ e.url \in DeliveredUrls \ AnsweredLocally /\ ~Skipped(e)
             /\ MapIndex(cache, e.url) = 0) =>
              last'.fetched ]_vars

\* A call for a URL has just failed, nothing is cached for the URL, and the
\* next navigation to it is about to be checked.
C30_Witness ==
  /\ last.op = "FetchComplete" /\ last.response \in FetchFailures
  /\ MapIndex(cache, last.url) = 0
  /\ \E e \in navEvents :
        /\ e.url = last.url /\ e.frameId = 0 /\ ~Skipped(e)
        /\ e.url \in DeliveredUrls \ AnsweredLocally
====
